---------------------------- MODULE Spec2Model ----------------------------
(***************************************************************************)
(* Clip-rendering pipeline of clip-creator-pro.                            *)
(*                                                                         *)
(*   - calculateClipTimings  (hooks/useFFmpegWorker, caption revision)     *)
(*   - renderCaptionsWithFallback (lib/ffmpeg/captionPipeline.ts)          *)
(*   - the useFFmpegWorker hook: load / processVideo / abort / reset       *)
(*                                                                         *)
(* Times are exact rationals.  A time of the clip planner is an integer   *)
(* number of 1/Unit seconds, Unit being a common multiple of every divisor *)
(* the planner uses, so that each of its divisions is exact.               *)
(***************************************************************************)
EXTENDS Integers, Sequences, FiniteSets, TLC

VARIABLES
    \* ---- clip timing planner: calculateClipTimings(videoDuration, config, audioHighlights)
    videoDuration,      \* seconds
    config,             \* CutConfig: [duration, count]
    audioHighlights,    \* sequence of [time, intensity]
    timings,            \* the returned ClipTimings[] (times in 1/Unit seconds)
    planner,            \* "input" | "returned" | "diverged"
    \* ---- the encode engine (FFmpeg instances) as the pipeline sees it
    engineState,        \* instance -> "unused" | "loading" | "ready" | "failed" | "terminated"
    fs,                 \* instance -> names of the files in its working storage
    execInFlight,       \* callers whose ffmpeg.exec has been issued and has not completed
    \* ---- renderCaptionsWithFallback: one call frame per caller
    render,
    \* ---- useFFmpegWorker: refs and React state of the hook
    revision,           \* which revision of the hook runs: "captions" | "viral"
    ffmpegRef,          \* ffmpegRef.current: an engine instance, or NoEngine
    loaded,
    loading,
    processing,
    progress,           \* ProcessingProgress: [currentClip, totalClips, stage]
    clips,              \* the published ProcessedClip[]
    abortRef,           \* abortRef.current (isAbortedRef.current in the viral revision)
    urls,               \* object URLs created and not revoked
    \* ---- calls of the hook's interface that are under way
    run,                \* processVideo invocations
    aborting,           \* abort() of the viral revision between its awaits
    loader,             \* the instances the load() calls of the page wait for
    preview,            \* generateCaptionPreview invocation
    \* ---- one call of a function of the pipeline that keeps no state
    fnArgs,             \* the function and its arguments
    fnResult            \* what it returned

plannerVars == <<videoDuration, config, audioHighlights, timings, planner>>
functionVars == <<fnArgs, fnResult>>
pureVars == <<plannerVars, functionVars>>
engineVars == <<engineState, fs, execInFlight>>
hookVars == <<revision, ffmpegRef, loaded, loading, processing, progress, clips, abortRef, urls>>
sideCalls == <<aborting, loader, preview>>
callVars == <<run, sideCalls>>

vars == <<pureVars, engineVars, render, hookVars, callVars>>

-----------------------------------------------------------------------------
(* Bounds of the model *)

MaxVideoDuration == 6
MaxClipDuration == 3
MaxCount == 3
MaxHighlights == 2
MaxIntensity == 2
MaxRuns == 2
MaxEngines == 3
MaxBackToBack == 2
NumWindows == 7
MaxAmplitude == 2
MaxPeakDistance == 3
MaxPeaks == 2
MaxWords == 7
MaxOverlaySegments == 40
MaxSegments == 2
MaxNormalized == 3
MaxLooseWords == 3

-----------------------------------------------------------------------------
(* Generic helpers *)

Max(a, b) == IF a >= b THEN a ELSE b
Min(a, b) == IF a <= b THEN a ELSE b

RECURSIVE Gcd(_, _)
Gcd(a, b) == IF b = 0 THEN a ELSE Gcd(b, a % b)

RECURSIVE LcmUpTo(_)
LcmUpTo(n) == IF n <= 1 THEN 1 ELSE (LcmUpTo(n - 1) * n) \div Gcd(LcmUpTo(n - 1), n)

\* Resolution of planner times: every divisor the planner uses is in 1..count.
Unit == LcmUpTo(MaxCount)

IsPrefix(s, t) == Len(s) <= Len(t) /\ \A k \in 1..Len(s) : s[k] = t[k]

-----------------------------------------------------------------------------
(* calculateClipTimings *)

NoPeak == 0

HighlightLead == 3

\* (a, b) => b.intensity - a.intensity : a goes first iff its intensity is greater
ByIntensityDesc(a, b) == a.intensity > b.intensity

\* (a, b) => a.startTime - b.startTime
ByStartTime(a, b) == a.startTime < b.startTime

\* (a, b) => a.start - b.start
ByStart(a, b) == a.start < b.start

\* (a, b) => a.time - b.time
ByTime(a, b) == a.time < b.time

\* The compare callbacks the code passes to sort.
Before(order, a, b) ==
    CASE order = "intensityDesc" -> ByIntensityDesc(a, b)
      [] order = "startTime" -> ByStartTime(a, b)
      [] order = "start" -> ByStart(a, b)
      [] order = "time" -> ByTime(a, b)

\* Array.prototype.sort is stable: insertion into the sorted prefix after
\* every element that does not compare greater.
RECURSIVE InsertBy(_, _, _)
InsertBy(order, x, s) ==
    IF s = <<>> THEN <<x>>
    ELSE IF Before(order, x, Head(s)) THEN <<x>> \o s
    ELSE <<Head(s)>> \o InsertBy(order, x, Tail(s))

RECURSIVE StableSort(_, _)
StableSort(order, s) ==
    IF s = <<>> THEN <<>>
    ELSE InsertBy(order, s[Len(s)], StableSort(order, SubSeq(s, 1, Len(s) - 1)))

sortedHighlights(highlights, count) ==
    LET s == StableSort("intensityDesc", highlights)
    IN  SubSeq(s, 1, Min(count, Len(s)))

\* Variant of the overlap test that looks at the start of the candidate only.
hasOverlap_StartOnly(ts, startTime, endTime) ==
    \E k \in 1..Len(ts) : startTime >= ts[k].startTime /\ startTime < ts[k].endTime

hasOverlap(ts, startTime, endTime) ==
    \E k \in 1..Len(ts) :
        \/ (startTime >= ts[k].startTime /\ startTime < ts[k].endTime)
        \/ (endTime > ts[k].startTime /\ endTime <= ts[k].endTime)

\* The window one highlight proposes (times in 1/Unit seconds).
HighlightWindow(highlight, vd, clipDuration) ==
    LET startTime == Max(0, highlight.time * Unit - HighlightLead * Unit)
        endTime == startTime + clipDuration
    IN  IF endTime > vd
        THEN [startTime |-> Max(0, vd - clipDuration), endTime |-> vd,
              peakIntensity |-> highlight.intensity]
        ELSE [startTime |-> startTime, endTime |-> endTime,
              peakIntensity |-> highlight.intensity]

RECURSIVE HighlightPass(_, _, _, _, _)
HighlightPass(sorted, k, ts, vd, clipDuration) ==
    IF k > Len(sorted) THEN ts
    ELSE LET w == HighlightWindow(sorted[k], vd, clipDuration)
         IN  IF hasOverlap(ts, w.startTime, w.endTime)
             THEN HighlightPass(sorted, k + 1, ts, vd, clipDuration)
             ELSE HighlightPass(sorted, k + 1, Append(ts, w), vd, clipDuration)

\* while (timings.length < count && currentStart + clipDuration <= videoDuration)
\* The loop cannot leave a position it does not advance from: interval = 0
\* with an overlap at currentStart repeats the same iteration for ever.
RECURSIVE FillLoop(_, _, _, _, _, _)
FillLoop(ts, currentStart, interval, vd, clipDuration, count) ==
    IF ~(Len(ts) < count /\ currentStart + clipDuration <= vd)
    THEN [timings |-> ts, diverged |-> FALSE]
    ELSE IF hasOverlap(ts, currentStart, currentStart + clipDuration)
         THEN IF interval = 0
              THEN [timings |-> ts, diverged |-> TRUE]
              ELSE FillLoop(ts, currentStart + interval, interval, vd, clipDuration, count)
         ELSE FillLoop(Append(ts, [startTime |-> currentStart,
                                   endTime |-> currentStart + clipDuration,
                                   peakIntensity |-> NoPeak]),
                       currentStart + interval, interval, vd, clipDuration, count)

\* Variant of the uniform windows in which each window ends where the next starts.
RECURSIVE LinearWindows_EndAtNextStart(_, _, _, _)
LinearWindows_EndAtNextStart(i, count, interval, clipDuration) ==
    IF i >= count THEN <<>>
    ELSE <<[startTime |-> i * interval, endTime |-> (i + 1) * interval,
            peakIntensity |-> NoPeak]>>
         \o LinearWindows_EndAtNextStart(i + 1, count, interval, clipDuration)

RECURSIVE LinearWindows(_, _, _, _)
LinearWindows(i, count, interval, clipDuration) ==
    IF i >= count THEN <<>>
    ELSE <<[startTime |-> i * interval, endTime |-> i * interval + clipDuration,
            peakIntensity |-> NoPeak]>>
         \o LinearWindows(i + 1, count, interval, clipDuration)

\* Result: [timings, diverged]; diverged = the call never returns.
calculateClipTimings(vdSeconds, cfg, highlights) ==
    LET vd == vdSeconds * Unit
        clipDuration == cfg.duration * Unit
        count == cfg.count
    IN  IF Len(highlights) > 0
        THEN LET ts == HighlightPass(sortedHighlights(highlights, count), 1, <<>>,
                                     vd, clipDuration)
                 r == IF Len(ts) < count
                      THEN FillLoop(ts, 0, (vd - clipDuration) \div (count - Len(ts)),
                                    vd, clipDuration, count)
                      ELSE [timings |-> ts, diverged |-> FALSE]
             IN  [timings |-> StableSort("startTime", r.timings), diverged |-> r.diverged]
        ELSE LET interval == (vd - clipDuration) \div (IF count > 1 THEN count - 1 ELSE 1)
             IN  [timings |-> StableSort("startTime",
                                         LinearWindows(0, count, interval, clipDuration)),
                  diverged |-> FALSE]

-----------------------------------------------------------------------------
(* Caption text and segments (captionPipeline.ts)                          *)
(*                                                                         *)
(* A text is a sequence of characters.  The characters the pipeline tells  *)
(* apart: "a" an ordinary letter, " " white space, "[" a character the     *)
(* safe mode removes, ":" a character escapeDrawtextText escapes, "^A" a   *)
(* control character (U+0001), "BOM" the byte order mark (U+FEFF), "LF"    *)
(* a line feed (U+000A), white space to trim() and outside the range of    *)
(* control characters stripInvalidChars removes.                           *)
(* Caption times are integers, in ticks of 0.04 s.                         *)

Ticks(seconds) == seconds * 25

\* const minLen = 0.08
minLen == 2

\* the hook is shown for the first 1.2 s
hookSeconds == 30

MAX_OVERLAYS == 15

clamp(n, lo, hi) == Min(hi, Max(lo, n))

RECURSIVE RemoveChars(_, _)
RemoveChars(text, bad) ==
    IF text = <<>> THEN <<>>
    ELSE IF Head(text) \in bad THEN RemoveChars(Tail(text), bad)
    ELSE <<Head(text)>> \o RemoveChars(Tail(text), bad)

WhiteSpace == {" ", "LF"}

RECURSIVE TrimLeft(_)
TrimLeft(text) ==
    IF text # <<>> /\ Head(text) \in WhiteSpace THEN TrimLeft(Tail(text)) ELSE text

RECURSIVE TrimRight(_)
TrimRight(text) ==
    IF text # <<>> /\ text[Len(text)] \in WhiteSpace
    THEN TrimRight(SubSeq(text, 1, Len(text) - 1))
    ELSE text

trim(text) == TrimRight(TrimLeft(text))

stripInvalidChars(text) == trim(RemoveChars(RemoveChars(text, {"BOM"}), {"^A"}))

RECURSIVE EscapeChars(_)
EscapeChars(text) ==
    IF text = <<>> THEN <<>>
    ELSE (IF Head(text) \in {"\\", "'", ":", "%"}
          THEN <<"\\", Head(text)>>
          ELSE IF Head(text) = "LF" THEN <<"\\", "n">>
          ELSE <<Head(text)>>) \o EscapeChars(Tail(text))

escapeDrawtextText(text) == trim(EscapeChars(stripInvalidChars(text)))

toUpperCase(text) == [k \in 1..Len(text) |-> IF text[k] = "a" THEN "A" ELSE text[k]]

\* Variant of the first loop that clamps the times and keeps every length.
RECURSIVE SafeSegments_KeepsShort(_, _)
SafeSegments_KeepsShort(segs, duration) ==
    IF segs = <<>> THEN <<>>
    ELSE LET seg == Head(segs)
             rawText == stripInvalidChars(seg.text)
             start == clamp(seg.start, 0, duration)
             end == clamp(seg.end, 0, duration)
         IN  (IF rawText = <<>>
              THEN <<>>
              ELSE <<[text |-> rawText, start |-> start, end |-> end]>>)
             \o SafeSegments_KeepsShort(Tail(segs), duration)

\* First loop of normalizeCaptionSegments: strip, clamp, drop what is too short.
RECURSIVE SafeSegments(_, _)
SafeSegments(segs, duration) ==
    IF segs = <<>> THEN <<>>
    ELSE LET seg == Head(segs)
             rawText == stripInvalidChars(seg.text)
             start == clamp(seg.start, 0, duration)
             end == clamp(seg.end, 0, duration)
         IN  (IF rawText = <<>> \/ end - start < minLen
              THEN <<>>
              ELSE <<[text |-> rawText, start |-> start, end |-> end]>>)
             \o SafeSegments(Tail(segs), duration)

\* Variant of the second loop that keeps a shifted segment whatever length is
\* left of it.
RECURSIVE FixOverlaps_KeepsShort(_, _)
FixOverlaps_KeepsShort(safe, fixed) ==
    IF safe = <<>> THEN fixed
    ELSE LET seg == Head(safe)
         IN  IF fixed = <<>> THEN FixOverlaps_KeepsShort(Tail(safe), <<seg>>)
             ELSE LET last == fixed[Len(fixed)]
                  IN  IF seg.start < last.end
                      THEN FixOverlaps_KeepsShort(Tail(safe),
                               Append(fixed, [seg EXCEPT !.start = last.end]))
                      ELSE FixOverlaps_KeepsShort(Tail(safe), Append(fixed, seg))

\* Second loop of normalizeCaptionSegments: push an overlapping segment's
\* start to the end of the last kept one, or drop it.
RECURSIVE FixOverlaps(_, _)
FixOverlaps(safe, fixed) ==
    IF safe = <<>> THEN fixed
    ELSE LET seg == Head(safe)
         IN  IF fixed = <<>> THEN FixOverlaps(Tail(safe), <<seg>>)
             ELSE LET last == fixed[Len(fixed)]
                  IN  IF seg.start < last.end
                      THEN IF seg.end - last.end >= minLen
                           THEN FixOverlaps(Tail(safe),
                                    Append(fixed, [seg EXCEPT !.start = last.end]))
                           ELSE FixOverlaps(Tail(safe), fixed)
                      ELSE FixOverlaps(Tail(safe), Append(fixed, seg))

normalizeCaptionSegments(segs, duration) ==
    FixOverlaps(StableSort("start", SafeSegments(segs, duration)), <<>>)

\* One drawtext directive per segment whose escaped text is not empty, after
\* the hook's directive.  The filter string is empty iff the result is <<>>.
RECURSIVE SegmentDirectives(_, _)
SegmentDirectives(segs, mode) ==
    IF segs = <<>> THEN <<>>
    ELSE LET seg == Head(segs)
             t == IF mode = "safe" THEN RemoveChars(seg.text, {"[", "]", "\"", "<", ">"})
                  ELSE seg.text
             escaped == escapeDrawtextText(t)
         IN  (IF escaped = <<>> THEN <<>>
              ELSE <<[text |-> escaped, start |-> seg.start, end |-> seg.end]>>)
             \o SegmentDirectives(Tail(segs), mode)

\* Variant of the filter builder that draws a placeholder text when the
\* input gives nothing to draw.
buildDrawtextFilters_Placeholder(input, mode) ==
    LET t == IF input.hookText = <<>> THEN <<>>
             ELSE escapeDrawtextText(toUpperCase(input.hookText))
        built == (IF t = <<>> THEN <<>>
                  ELSE <<[text |-> t, start |-> 0, end |-> hookSeconds]>>)
                 \o SegmentDirectives(input.segments, mode)
    IN  IF built = <<>> THEN <<[text |-> <<"a">>, start |-> 0, end |-> hookSeconds]>>
        ELSE built

buildDrawtextFilters(input, mode) ==
    LET t == IF input.hookText = <<>> THEN <<>>
             ELSE escapeDrawtextText(toUpperCase(input.hookText))
    IN  (IF t = <<>> THEN <<>>
         ELSE <<[text |-> t, start |-> 0, end |-> hookSeconds]>>)
        \o SegmentDirectives(input.segments, mode)

RECURSIVE JoinTexts(_)
JoinTexts(group) ==
    IF Len(group) = 1 THEN group[1].text
    ELSE group[1].text \o <<" ">> \o JoinTexts(Tail(group))

RECURSIVE MergeGroups(_, _, _)
MergeGroups(segs, i, groupSize) ==
    IF i > Len(segs) THEN <<>>
    ELSE LET group == SubSeq(segs, i, Min(Len(segs), i + groupSize - 1))
         IN  <<[text |-> JoinTexts(group),
                start |-> group[1].start,
                end |-> group[Len(group)].end]>>
             \o MergeGroups(segs, i + groupSize, groupSize)

\* Variant of the merge with groupSize = Math.floor(segments.length / maxCount).
mergeSegmentsForOverlay_FloorGroup(segs, maxCount) ==
    IF Len(segs) <= maxCount THEN segs
    ELSE MergeGroups(segs, 1, Len(segs) \div maxCount)

\* groupSize = Math.ceil(segments.length / maxCount)
mergeSegmentsForOverlay(segs, maxCount) ==
    IF Len(segs) <= maxCount THEN segs
    ELSE MergeGroups(segs, 1, (Len(segs) + maxCount - 1) \div maxCount)

-----------------------------------------------------------------------------
(* The encode engine: ffmpeg.exec, writeFile                               *)

Callers == 1..MaxRuns

\* The caller the specifications of a single invocation follow.
FirstCaller == {1}
Engines == 1..MaxEngines

NoEngine == 0

\* A failed encode: exit code 1, another exit code, or the engine aborts
\* (the exec promise rejects with "Aborted()").
Failures == {"exit1", "exitOther", "aborted"}

\* What ffmpeg.exec can answer.  An instance that is not loaded rejects the
\* call; without its input the encode exits with 1; an encode that carries
\* nothing but the base filter chain succeeds iff the clip's plain encode is
\* viable; captions can make a viable encode fail.
ExecOutcomes(engine, inputFile, isPlain, viable) ==
    IF engine = NoEngine \/ engineState[engine] # "ready" THEN {"notLoaded"}
    ELSE IF inputFile \notin fs[engine] THEN {"exit1"}
    ELSE IF ~viable THEN Failures
    ELSE IF isPlain THEN {"exit0"}
    ELSE {"exit0"} \cup Failures

EngineReady(engine) == engine # NoEngine /\ engineState[engine] = "ready"

OvFile(i) == "ov_" \o ToString(i) \o ".png"

-----------------------------------------------------------------------------
(* renderCaptionsWithFallback *)

NoResult == [usedStrategy |-> "none", hadAnyCaptions |-> FALSE]

IdleFrame ==
    [pc |-> "idle", ffmpeg |-> 1, inputFile |-> "input.mp4", outputFile |-> "none",
     duration |-> 0, captions |-> [hookText |-> <<>>, segments |-> <<>>],
     captionsRequired |-> FALSE, hadAnyCaptions |-> FALSE, hookText |-> <<>>,
     segments |-> <<>>, fontLoaded |-> FALSE, pending |-> <<>>, execLog |-> <<>>,
     engineAborted |-> FALSE, plainViable |-> TRUE, result |-> NoResult]

\* Lines 273-288: the frame when the call reaches its first await.
\* plainViable: whether a caption-free encode of this clip exits with 0.
EnterRender(ffmpeg, outputFile, duration, captions, captionsRequired, viable) ==
    LET normalized == normalizeCaptionSegments(captions.segments, duration)
    IN  [IdleFrame EXCEPT
            !.pc = "font", !.ffmpeg = ffmpeg, !.outputFile = outputFile,
            !.duration = duration, !.captions = captions,
            !.captionsRequired = captionsRequired, !.plainViable = viable,
            !.hadAnyCaptions = (captions.hookText # <<>>) \/ Len(normalized) > 0,
            !.hookText = stripInvalidChars(captions.hookText),
            !.segments = normalized]

captionInput(f) == [hookText |-> f.hookText, segments |-> f.segments]

Texts(directives) == [k \in 1..Len(directives) |-> directives[k].text]

\* Variant of the font check that enters Strategy A whether or not the font
\* was staged.
EnsureFont_AlwaysDrawtext(p) ==
    /\ render[p].pc = "font"
    /\ \E how \in {"fetch_failed", "write_failed", "readback_failed", "staged"} :
        /\ how \in {"readback_failed", "staged"} => EngineReady(render[p].ffmpeg)
        /\ fs' = IF how \in {"readback_failed", "staged"}
                 THEN [fs EXCEPT ![render[p].ffmpeg] = @ \cup {"caption-font.ttf"}]
                 ELSE fs
        /\ render' = [render EXCEPT ![p].fontLoaded = (how = "staged"),
                                    ![p].pc = "A"]
    /\ UNCHANGED <<engineState, execInFlight, pureVars, hookVars, callVars>>

\* ensureFontInFS: the fetch fails or is empty, writeFile throws, the
\* read-back fails after the write, or the font is staged.
EnsureFont(p) ==
    /\ render[p].pc = "font"
    /\ \E how \in {"fetch_failed", "write_failed", "readback_failed", "staged"} :
        /\ how \in {"readback_failed", "staged"} => EngineReady(render[p].ffmpeg)
        /\ fs' = IF how \in {"readback_failed", "staged"}
                 THEN [fs EXCEPT ![render[p].ffmpeg] = @ \cup {"caption-font.ttf"}]
                 ELSE fs
        /\ render' = [render EXCEPT ![p].fontLoaded = (how = "staged"),
                                    ![p].pc = IF how = "staged" THEN "A" ELSE "C"]
    /\ UNCHANGED <<engineState, execInFlight, pureVars, hookVars, callVars>>

\* A drawtext strategy up to its tryExec: "No caption filters built" is
\* thrown into the strategy's own catch.
Drawtext(p, at, mode, strategy, next) ==
    /\ render[p].pc = at
    /\ LET draw == buildDrawtextFilters(captionInput(render[p]), mode)
       IN  IF render[p].captionsRequired /\ draw = <<>>
           THEN /\ render' = [render EXCEPT ![p].pc = next]
                /\ UNCHANGED execInFlight
           ELSE /\ render' = [render EXCEPT
                        ![p].pc = at \o "_exec",
                        ![p].pending = <<[strategy |-> strategy, captions |-> Texts(draw)]>>]
                /\ execInFlight' = execInFlight \cup {p}
    /\ UNCHANGED <<engineState, fs, pureVars, hookVars, callVars>>

\* The exec of a strategy completes: exit code 0 returns the strategy's
\* result, anything else (an exit code or an exception) moves on to `next`.
ExecDone(p, at, okResult, next) ==
    /\ render[p].pc = at
    /\ p \in execInFlight
    /\ LET f == render[p]
           inv == f.pending[1]
       IN  \E o \in ExecOutcomes(f.ffmpeg, f.inputFile, inv.captions = <<>>, f.plainViable) :
            /\ execInFlight' = execInFlight \ {p}
            /\ fs' = IF o = "exit0"
                     THEN [fs EXCEPT ![f.ffmpeg] = @ \cup {f.outputFile}]
                     ELSE fs
            /\ render' = [render EXCEPT
                    ![p].pending = <<>>,
                    ![p].execLog = Append(@, [strategy |-> inv.strategy,
                                              captions |-> inv.captions,
                                              ok |-> (o = "exit0")]),
                    ![p].engineAborted = @ \/ (o = "aborted"),
                    ![p].pc = IF o = "exit0" THEN "returned" ELSE next,
                    ![p].result = IF o = "exit0" THEN okResult ELSE @]
    /\ UNCHANGED <<engineState, pureVars, hookVars, callVars>>

StrategyA(p) == Drawtext(p, "A", "normal", "A_drawtext", "B")

StrategyADone(p) ==
    ExecDone(p, "A_exec",
             [usedStrategy |-> "A_drawtext", hadAnyCaptions |-> render[p].hadAnyCaptions],
             "B")

StrategyB(p) == Drawtext(p, "B", "safe", "B_drawtext_safe", "C")

\* Variant of Strategy B whose failure goes back to Strategy A.
StrategyBDone_BackToA(p) ==
    ExecDone(p, "B_exec",
             [usedStrategy |-> "B_drawtext_safe", hadAnyCaptions |-> render[p].hadAnyCaptions],
             "A")

StrategyBDone(p) ==
    ExecDone(p, "B_exec",
             [usedStrategy |-> "B_drawtext_safe", hadAnyCaptions |-> render[p].hadAnyCaptions],
             "C")

\* The overlays Strategy C wants, hook first.
OverlaysOf(f) ==
    (IF f.hookText # <<>>
     THEN <<[file |-> "ov_hook.png", text |-> f.hookText,
             start |-> 0, end |-> Min(hookSeconds, f.duration)]>>
     ELSE <<>>)
    \o LET overlaySegments ==
               mergeSegmentsForOverlay(f.segments,
                   MAX_OVERLAYS - (IF f.hookText # <<>> THEN 1 ELSE 0))
       IN  [i \in 1..Len(overlaySegments) |->
               [file |-> OvFile(i - 1), text |-> overlaySegments[i].text,
                start |-> overlaySegments[i].start, end |-> overlaySegments[i].end]]

\* Variant of Strategy C without the zero-overlay encode of lines 394-408:
\* with nothing to overlay the strategy fails.
StrategyC_NoZeroOverlayEncode(p) ==
    /\ render[p].pc = "C"
    /\ LET f == render[p]
           overlays == OverlaysOf(f)
       IN  IF overlays = <<>>
           THEN /\ render' = [render EXCEPT ![p].pc = "last"]
                /\ UNCHANGED <<fs, execInFlight>>
           ELSE /\ EngineReady(f.ffmpeg)
                /\ fs' = [fs EXCEPT ![f.ffmpeg] =
                              @ \cup {overlays[k].file : k \in 1..Len(overlays)}]
                /\ render' = [render EXCEPT
                        ![p].pc = "C_exec",
                        ![p].pending = <<[strategy |-> "C_overlay_images",
                                          captions |-> Texts(overlays)]>>]
                /\ execInFlight' = execInFlight \cup {p}
    /\ UNCHANGED <<engineState, pureVars, hookVars, callVars>>

\* Strategy C up to its tryExec.  Rendering or writing overlay n + 1 may
\* throw (no canvas, toBlob, writeFile) after n overlays have been written.
StrategyC(p) ==
    /\ render[p].pc = "C"
    /\ LET f == render[p]
           overlays == OverlaysOf(f)
       IN  \E n \in 0..Len(overlays) :
            /\ n > 0 => EngineReady(f.ffmpeg)
            /\ fs' = IF n = 0 THEN fs
                     ELSE [fs EXCEPT ![f.ffmpeg] = @ \cup {overlays[k].file : k \in 1..n}]
            /\ IF n < Len(overlays)
               THEN /\ render' = [render EXCEPT ![p].pc = "last"]
                    /\ UNCHANGED execInFlight
               ELSE /\ render' = [render EXCEPT
                            ![p].pc = "C_exec",
                            ![p].pending =
                                <<[strategy |-> IF overlays = <<>> THEN "no_captions"
                                                ELSE "C_overlay_images",
                                   captions |-> Texts(overlays)]>>]
                    /\ execInFlight' = execInFlight \cup {p}
    /\ UNCHANGED <<engineState, pureVars, hookVars, callVars>>

\* Variant of Strategy C that reports every encode of its own as an overlay
\* encode.
StrategyCDone_ReportsOverlay(p) ==
    ExecDone(p, "C_exec",
             [usedStrategy |-> "C_overlay_images",
              hadAnyCaptions |-> render[p].hadAnyCaptions],
             "last")

StrategyCDone(p) ==
    ExecDone(p, "C_exec",
             IF render[p].pending[1].captions = <<>>
             THEN [usedStrategy |-> "no_captions", hadAnyCaptions |-> FALSE]
             ELSE [usedStrategy |-> "C_overlay_images",
                   hadAnyCaptions |-> render[p].hadAnyCaptions],
             "last")

\* Variant of the last resort without the plain encode of lines 455-471.
LastResort_NoPlainEncode(p) ==
    /\ render[p].pc = "last"
    /\ render' = [render EXCEPT ![p].pc = "threw"]
    /\ UNCHANGED <<engineVars, pureVars, hookVars, callVars>>

\* Variant of the last resort that runs the plain encode with required
\* captions too.
LastResort_PlainEvenIfRequired(p) ==
    /\ render[p].pc = "last"
    /\ render' = [render EXCEPT
            ![p].pc = "last_exec",
            ![p].pending = <<[strategy |-> "no_captions", captions |-> <<>>]>>]
    /\ execInFlight' = execInFlight \cup {p}
    /\ UNCHANGED <<engineState, fs, pureVars, hookVars, callVars>>

\* Last resort: one plain encode unless captions are required; otherwise
\* throw new Error("Caption rendering failed for all strategies").
LastResort(p) ==
    /\ render[p].pc = "last"
    /\ IF render[p].captionsRequired
       THEN /\ render' = [render EXCEPT ![p].pc = "threw"]
            /\ UNCHANGED execInFlight
       ELSE /\ render' = [render EXCEPT
                    ![p].pc = "last_exec",
                    ![p].pending = <<[strategy |-> "no_captions", captions |-> <<>>]>>]
            /\ execInFlight' = execInFlight \cup {p}
    /\ UNCHANGED <<engineState, fs, pureVars, hookVars, callVars>>

LastResortDone(p) ==
    ExecDone(p, "last_exec",
             [usedStrategy |-> "no_captions", hadAnyCaptions |-> FALSE],
             "threw")

-----------------------------------------------------------------------------
(* useFFmpegWorker: what both revisions of the hook share                  *)

Progress(currentClip, totalClips, stage) ==
    [currentClip |-> currentClip, totalClips |-> totalClips, stage |-> stage]

\* The locals of one processVideo invocation.  abortCalled and reloads record
\* what happened to the invocation; the code does not read them.
IdleRun ==
    [pc |-> "idle", i |-> 0, count |-> 0, timings |-> <<>>, ffmpeg |-> NoEngine,
     captionsRequired |-> FALSE, asrEnabled |-> FALSE, captionResult |-> <<>>,
     plainViable |-> TRUE, attempt |-> 0, reloads |-> 0, waitsFor |-> NoEngine,
     error |-> "none", abortCalled |-> FALSE]

\* generateCaptionPreview's exec is told from those of the runs.
PreviewCaller == 0

IdlePreview == [pc |-> "idle", ff |-> NoEngine, waitsFor |-> NoEngine]

Active(r) == run[r].pc \notin {"idle", "resolved", "rejected"}

\* new FFmpeg(): the next instance, with an empty working storage.
HasFreshEngine == \E e \in Engines : engineState[e] = "unused"
FreshEngine == CHOOSE e \in Engines :
    engineState[e] = "unused" /\ \A d \in Engines : d < e => engineState[d] # "unused"

\* The instances n calls of `new FFmpeg()` create, and the last of them.
UnusedEngines == {e \in Engines : engineState[e] = "unused"}
Highest(S) == CHOOSE e \in S : \A f \in S : f <= e
FreshEngines(n) ==
    {e \in UnusedEngines : Cardinality({f \in UnusedEngines : f < e}) < n}

\* `clip_${i + 1}.mp4`
OutputName(i) == "clip_" \o ToString(i + 1) \o ".mp4"

\* The ProcessedClip pushed for clip i of invocation r; its object URL is
\* named after the two.
Clip(r, i, timing) ==
    [run |-> r, index |-> i, name |-> "corte_viral_" \o ToString(i + 1) \o ".mp4",
     url |-> <<r, i>>, startTime |-> timing.startTime, endTime |-> timing.endTime]

\* clipDuration = endTime - startTime, in caption ticks
ClipTicks(timing) == ((timing.endTime - timing.startTime) * Ticks(1)) \div Unit

-----------------------------------------------------------------------------
(* Compositor specification: one call of renderCaptionsWithFallback on an  *)
(* engine that holds the input, for every caption input of the menu        *)

HookMenu == { <<>>, <<"a">>, <<"^A">> }

SegmentMenu ==
    { [text |-> <<"a">>, start |-> 0, end |-> 25],
      [text |-> <<"[">>, start |-> 10, end |-> 40],
      [text |-> <<"^A">>, start |-> 0, end |-> 25],
      [text |-> <<"a", ":">>, start |-> 26, end |-> 50],
      [text |-> <<"a">>, start |-> 49, end |-> 50] }

DurationMenu == { 20, 50 }

SegmentLists == UNION { [1..n -> SegmentMenu] : n \in 0..MaxSegments }

NoCall == [fn |-> "none"]
NotReturned == [returned |-> FALSE]

ParkedFunction ==
    /\ fnArgs = NoCall
    /\ fnResult = NotReturned

ParkedPlanner ==
    /\ videoDuration = 1
    /\ config = [duration |-> 1, count |-> 1]
    /\ audioHighlights = <<>>
    /\ timings = <<>>
    /\ planner = "parked"
    /\ ParkedFunction

ParkedHook ==
    /\ revision = "none"
    /\ ffmpegRef = NoEngine
    /\ loaded = FALSE
    /\ loading = FALSE
    /\ processing = FALSE
    /\ progress = [currentClip |-> 0, totalClips |-> 0, stage |-> "idle"]
    /\ clips = <<>>
    /\ abortRef = FALSE
    /\ urls = {}
    /\ run = [r \in Callers |-> IdleRun]
    /\ aborting = "idle"
    /\ loader = {}
    /\ preview = IdlePreview

RenderInit ==
    /\ ParkedPlanner
    /\ ParkedHook
    /\ engineState = [e \in Engines |-> IF e = 1 THEN "ready" ELSE "unused"]
    /\ fs = [e \in Engines |-> IF e = 1 THEN {"input.mp4"} ELSE {}]
    /\ execInFlight = {}
    /\ render = [p \in Callers |-> IdleFrame]

RenderCall ==
    /\ revision = "none"
    /\ render[1].pc = "idle"
    /\ \E hook \in HookMenu, segs \in SegmentLists, d \in DurationMenu,
          required \in BOOLEAN, viable \in BOOLEAN :
        render' = [render EXCEPT ![1] =
            EnterRender(1, "clip_1.mp4", d, [hookText |-> hook, segments |-> segs],
                        required, viable)]
    /\ UNCHANGED <<engineVars, pureVars, hookVars, callVars>>

RenderNext ==
    \/ RenderCall
    \/ EnsureFont(1)
    \/ StrategyA(1)
    \/ StrategyADone(1)
    \/ StrategyB(1)
    \/ StrategyBDone(1)
    \/ StrategyC(1)
    \/ StrategyCDone(1)
    \/ LastResort(1)
    \/ LastResortDone(1)

SpecRender == RenderInit /\ [][RenderNext]_vars

-----------------------------------------------------------------------------
(* Planner specification: every input of the bounded domain, one call *)

Highlight == [time : 0..MaxVideoDuration, intensity : 1..MaxIntensity]

\* Highlight lists as the peak detector hands them over: ascending in time.
HighlightLists(vd) ==
    UNION {
        { h \in [1..n -> Highlight] :
            /\ \A k \in 1..n : h[k].time <= vd
            /\ \A k \in 1..(n - 1) : h[k].time < h[k + 1].time }
        : n \in 0..MaxHighlights }

ParkedEngine ==
    /\ engineState = [e \in Engines |-> "unused"]
    /\ fs = [e \in Engines |-> {}]
    /\ execInFlight = {}
    /\ render = [p \in Callers |-> IdleFrame]

\* The calls of the planner: every source and CutConfig up to the bounds, and
\* the source of 120 s cut into 3 clips of 30 s.
PlannerCalls ==
    [videoDuration : 1..MaxVideoDuration,
     config : [duration : 1..MaxClipDuration, count : 1..MaxCount]]
    \cup {[videoDuration |-> 120, config |-> [duration |-> 30, count |-> 3]]}

PlannerInit ==
    /\ ParkedEngine
    /\ ParkedHook
    /\ \E call \in PlannerCalls :
          /\ videoDuration = call.videoDuration
          /\ config = call.config
    /\ audioHighlights \in HighlightLists(videoDuration)
    /\ timings = <<>>
    /\ planner = "input"
    /\ ParkedFunction

CalculateClipTimings ==
    /\ planner = "input"
    /\ LET r == calculateClipTimings(videoDuration, config, audioHighlights)
       IN  /\ timings' = r.timings
           /\ planner' = IF r.diverged THEN "diverged" ELSE "returned"
    /\ UNCHANGED <<videoDuration, config, audioHighlights, functionVars, engineVars,
                   render, hookVars, callVars>>

PlannerNext == CalculateClipTimings

SpecTimings == PlannerInit /\ [][PlannerNext]_vars

-----------------------------------------------------------------------------
(* useFFmpegWorker, caption revision (part_003): load, processVideo,        *)
(* generateCaptionPreview, abort, reset.  An action is one run of the code  *)
(* from one await to the next.                                              *)
(*                                                                         *)
(* Scope of the model: SpecWorker follows one invocation of processVideo    *)
(* with every other call of the interface interleaved, SpecSessions follows *)
(* MaxRuns invocations one after the other; one row of load() calls of the  *)
(* page at a time, at most MaxEngines FFmpeg instances; a call on an instance that is still loading rejects;   *)
(* the outcome of each exec is independent of the earlier ones.             *)

\* What processVideo is called with: videoDuration, config.duration, count.
RunConfigs ==
    {[videoDuration |-> 6, duration |-> 3, count |-> 1],
     [videoDuration |-> 6, duration |-> 3, count |-> 2]}

\* What the transcription of a clip can come back as (captionResult?.captions ?? []).
AsrResults == {<<>>, <<[text |-> <<"a">>, start |-> 0, end |-> 25]>>}

\* /aborted\(\)/i, /exit code\s*1/i, /ffmpeg falhou com código 1/i
shouldRetryEngine(err) == err \in {"aborted", "exit1"}

\* catch (error) { setProgress(stage: 'error'); throw error } finally { setProcessing(false) }
Throw(r, err) ==
    /\ progress' = [progress EXCEPT !.stage = "error"]
    /\ processing' = FALSE
    /\ run' = [run EXCEPT ![r].pc = "rejected", ![r].error = err]

\* Lines 414-429, up to `await fetchFile(file)`.
BeginRun(r, rec) ==
    /\ abortRef' = FALSE
    /\ processing' = TRUE
    /\ clips' = <<>>
    /\ progress' = [progress EXCEPT !.stage = "reading-file"]
    /\ run' = [run EXCEPT ![r] = [rec EXCEPT !.pc = "write", !.ffmpeg = ffmpegRef]]

\* Variant of the start of the encode that gives the run up when captions are
\* enabled and the transcription brought none.
StartEncode_RequiresCaptions(r, rec, captions) ==
    IF rec.captionsRequired /\ captions = <<>>
    THEN /\ progress' = Progress(rec.i + 1, rec.count, "error")
         /\ run' = [run EXCEPT ![r] =
                [rec EXCEPT !.pc = "rejected", !.attempt = 1, !.reloads = 0,
                            !.captionResult = captions, !.error = "noCaptions"]]
         /\ UNCHANGED render
    ELSE /\ progress' = Progress(rec.i + 1, rec.count, "applying-filters")
         /\ render' = [render EXCEPT ![r] =
                EnterRender(ffmpegRef, OutputName(rec.i), ClipTicks(rec.timings[rec.i + 1]),
                            [hookText |-> <<>>, segments |-> captions],
                            rec.captionsRequired, rec.plainViable)]
         /\ run' = [run EXCEPT ![r] =
                [rec EXCEPT !.pc = "encode", !.attempt = 1, !.reloads = 0,
                            !.captionResult = captions]]

\* Lines 467-497 and the first lines of runEncode / renderCaptionsWithFallback.
StartEncode(r, rec, captions) ==
    /\ progress' = Progress(rec.i + 1, rec.count, "applying-filters")
    /\ render' = [render EXCEPT ![r] =
            EnterRender(ffmpegRef, OutputName(rec.i), ClipTicks(rec.timings[rec.i + 1]),
                        [hookText |-> <<>>, segments |-> captions],
                        rec.captionsRequired, rec.plainViable)]
    /\ run' = [run EXCEPT ![r] =
            [rec EXCEPT !.pc = "encode", !.attempt = 1, !.reloads = 0,
                        !.captionResult = captions]]

\* processVideo is called: line 413.
ProcessVideo(r) ==
    /\ revision = "captions"
    /\ run[r].pc = "idle"
    /\ \A q \in Callers : q < r => run[q].pc # "idle"
    /\ \E cfg \in RunConfigs, required \in BOOLEAN, asr \in BOOLEAN :
        LET clipTimings == calculateClipTimings(cfg.videoDuration,
                               [duration |-> cfg.duration, count |-> cfg.count], <<>>).timings
            rec == [IdleRun EXCEPT !.timings = clipTimings, !.count = Len(clipTimings),
                                   !.captionsRequired = required, !.asrEnabled = asr]
        IN  IF ffmpegRef = NoEngine /\ ~(loaded \/ loading)
            THEN /\ HasFreshEngine
                 /\ loading' = TRUE
                 /\ engineState' = [engineState EXCEPT ![FreshEngine] = "loading"]
                 /\ ffmpegRef' = FreshEngine
                 /\ run' = [run EXCEPT ![r] =
                        [rec EXCEPT !.pc = "load", !.waitsFor = FreshEngine]]
                 /\ UNCHANGED <<loaded, processing, progress, clips, abortRef>>
            ELSE /\ BeginRun(r, rec)
                 /\ UNCHANGED <<engineState, ffmpegRef, loaded, loading>>
    /\ UNCHANGED <<revision, urls, fs, execInFlight, render, pureVars, sideCalls>>

\* `await load()` of line 413 settles.  A rejection leaves processVideo
\* before its try block.
LoadResolved(r) ==
    /\ revision = "captions"
    /\ run[r].pc = "load"
    /\ \E ok \in BOOLEAN :
        /\ engineState' = [engineState EXCEPT ![run[r].waitsFor] =
                               IF ok THEN "ready" ELSE "failed"]
        /\ loading' = FALSE
        /\ loaded' = (loaded \/ ok)
        /\ IF ok
           THEN BeginRun(r, run[r])
           ELSE /\ run' = [run EXCEPT ![r].pc = "rejected", ![r].error = "loadFailed"]
                /\ UNCHANGED <<abortRef, processing, clips, progress>>
    /\ UNCHANGED <<revision, ffmpegRef, urls, fs, execInFlight, render, pureVars, sideCalls>>

\* Lines 429-430: fetchFile, ffmpeg.writeFile('input.mp4').
WriteInput(r) ==
    /\ revision = "captions"
    /\ run[r].pc = "write"
    /\ IF EngineReady(run[r].ffmpeg)
       THEN /\ fs' = [fs EXCEPT ![run[r].ffmpeg] = @ \cup {"input.mp4"}]
            /\ run' = [run EXCEPT ![r].pc = "loop"]
            /\ UNCHANGED <<progress, processing>>
       ELSE /\ Throw(r, "notLoaded")
            /\ UNCHANGED fs
    /\ UNCHANGED <<revision, ffmpegRef, loaded, loading, clips, abortRef, urls,
                   engineState, execInFlight, render, pureVars, sideCalls>>

\* The wav extraction of generateASRCaptions (extractWavPreview).
AsrExecOutcomes(engine) ==
    IF ~EngineReady(engine) THEN {"notLoaded"}
    ELSE IF "input.mp4" \notin fs[engine] THEN {"exit1"}
    ELSE {"exit0", "exit1"}

\* Lines 432-458 (with ASR) or 432-497 and the entry of the render (without).
LoopTop(r) ==
    /\ revision = "captions"
    /\ run[r].pc = "loop"
    /\ IF run[r].i >= run[r].count \/ abortRef
       THEN /\ run' = [run EXCEPT ![r].pc = "cleanup"]
            /\ UNCHANGED <<progress, render, execInFlight>>
       ELSE \E viable \in BOOLEAN :
            LET rec == [run[r] EXCEPT !.plainViable = viable]
            IN  IF rec.asrEnabled
                THEN /\ progress' = Progress(rec.i + 1, rec.count, "generating-captions")
                     /\ execInFlight' = execInFlight \cup {r}
                     /\ run' = [run EXCEPT ![r] =
                            [rec EXCEPT !.pc = "asr_exec", !.waitsFor = ffmpegRef]]
                     /\ UNCHANGED render
                ELSE /\ StartEncode(r, rec, <<>>)
                     /\ UNCHANGED execInFlight
    /\ UNCHANGED <<revision, ffmpegRef, loaded, loading, processing, clips, abortRef,
                   urls, engineState, fs, pureVars, sideCalls>>

\* extractWavPreview's exec completes; asr_preview.wav is read and deleted.
\* Any failure makes generateASRCaptions return null.
AsrExecDone(r) ==
    /\ revision = "captions"
    /\ run[r].pc = "asr_exec"
    /\ r \in execInFlight
    /\ execInFlight' = execInFlight \ {r}
    /\ \E o \in AsrExecOutcomes(run[r].waitsFor) :
        IF o = "exit0"
        THEN /\ run' = [run EXCEPT ![r].pc = "asr_invoke"]
             /\ UNCHANGED <<progress, render>>
        ELSE StartEncode(r, run[r], <<>>)
    /\ UNCHANGED <<revision, ffmpegRef, loaded, loading, processing, clips, abortRef,
                   urls, engineState, fs, pureVars, sideCalls>>

\* supabase.functions.invoke('transcribe-audio') answers.
AsrInvokeDone(r) ==
    /\ revision = "captions"
    /\ run[r].pc = "asr_invoke"
    /\ \E captions \in AsrResults : StartEncode(r, run[r], captions)
    /\ UNCHANGED <<revision, ffmpegRef, loaded, loading, processing, clips, abortRef,
                   urls, engineVars, pureVars, sideCalls>>

\* Variant of the catch of lines 561-571 that reloads and retries after every
\* failure with the signature, not only after the first one.
EncodeFailed_RetryAlways(r, err) ==
    IF shouldRetryEngine(err)
    THEN /\ HasFreshEngine
         /\ loaded' = FALSE
         /\ loading' = TRUE
         /\ engineState' = [engineState EXCEPT ![FreshEngine] = "loading"]
         /\ ffmpegRef' = FreshEngine
         /\ run' = [run EXCEPT ![r].pc = "reload", ![r].reloads = @ + 1,
                               ![r].waitsFor = FreshEngine, ![r].error = err]
         /\ UNCHANGED <<progress, processing>>
    ELSE /\ Throw(r, err)
         /\ UNCHANGED <<loaded, loading, engineState, ffmpegRef>>

\* The catch of lines 561-571 on the first runEncode of a clip, or the
\* rejection of the second one.
EncodeFailed(r, err) ==
    IF run[r].attempt = 1 /\ shouldRetryEngine(err)
    THEN /\ HasFreshEngine
         /\ loaded' = FALSE
         /\ loading' = TRUE
         /\ engineState' = [engineState EXCEPT ![FreshEngine] = "loading"]
         /\ ffmpegRef' = FreshEngine
         /\ run' = [run EXCEPT ![r].pc = "reload", ![r].reloads = @ + 1,
                               ![r].waitsFor = FreshEngine, ![r].error = err]
         /\ UNCHANGED <<progress, processing>>
    ELSE /\ Throw(r, err)
         /\ UNCHANGED <<loaded, loading, engineState, ffmpegRef>>

\* renderCaptionsWithFallback returned: runEncode resolves, line 574 awaits readFile.
EncodeReturned(r) ==
    /\ revision = "captions"
    /\ run[r].pc = "encode"
    /\ render[r].pc = "returned"
    /\ run' = [run EXCEPT ![r].pc = "read"]
    /\ render' = [render EXCEPT ![r] = IdleFrame]
    /\ UNCHANGED <<hookVars, engineVars, pureVars, sideCalls>>

\* renderCaptionsWithFallback threw: with captions not required runEncode
\* issues its own plain encode (lines 524-538), otherwise it rejects.
EncodeThrew(r) ==
    /\ revision = "captions"
    /\ run[r].pc = "encode"
    /\ render[r].pc = "threw"
    /\ IF ~run[r].captionsRequired
       THEN /\ execInFlight' = execInFlight \cup {r}
            /\ run' = [run EXCEPT ![r].pc = "fallback", ![r].waitsFor = render[r].ffmpeg]
            /\ UNCHANGED <<loaded, loading, engineState, ffmpegRef, progress, processing>>
       ELSE /\ EncodeFailed(r, "allStrategiesFailed")
            /\ UNCHANGED execInFlight
    /\ render' = [render EXCEPT ![r] = IdleFrame]
    /\ UNCHANGED <<revision, clips, abortRef, urls, fs, pureVars, sideCalls>>

\* The plain encode of runEncode completes.
FallbackDone(r) ==
    /\ revision = "captions"
    /\ run[r].pc = "fallback"
    /\ r \in execInFlight
    /\ execInFlight' = execInFlight \ {r}
    /\ \E o \in ExecOutcomes(run[r].waitsFor, "input.mp4", TRUE, run[r].plainViable) :
        IF o = "exit0"
        THEN /\ fs' = [fs EXCEPT ![run[r].waitsFor] = @ \cup {OutputName(run[r].i)}]
             /\ run' = [run EXCEPT ![r].pc = "read"]
             /\ UNCHANGED <<loaded, loading, engineState, ffmpegRef, progress, processing>>
        ELSE /\ EncodeFailed(r, o)
             /\ UNCHANGED fs
    /\ UNCHANGED <<revision, clips, abortRef, urls, render, pureVars, sideCalls>>

\* `await load({ force: true })` of line 566 settles; then runEncode again.
ReloadDone(r) ==
    /\ revision = "captions"
    /\ run[r].pc = "reload"
    /\ \E ok \in BOOLEAN :
        /\ engineState' = [engineState EXCEPT ![run[r].waitsFor] =
                               IF ok THEN "ready" ELSE "failed"]
        /\ loading' = FALSE
        /\ loaded' = (loaded \/ ok)
        /\ IF ok
           THEN /\ render' = [render EXCEPT ![r] =
                        EnterRender(ffmpegRef, OutputName(run[r].i),
                                    ClipTicks(run[r].timings[run[r].i + 1]),
                                    [hookText |-> <<>>, segments |-> run[r].captionResult],
                                    run[r].captionsRequired, run[r].plainViable)]
                /\ run' = [run EXCEPT ![r].pc = "encode", ![r].attempt = 2]
                /\ UNCHANGED <<progress, processing>>
           ELSE /\ Throw(r, "loadFailed")
                /\ UNCHANGED render
    /\ UNCHANGED <<revision, ffmpegRef, clips, abortRef, urls, fs, execInFlight,
                   pureVars, sideCalls>>

\* Lines 574-597: readFile, createObjectURL, push, setClips; deleteFile is awaited.
ReadOutput(r) ==
    /\ revision = "captions"
    /\ run[r].pc = "read"
    /\ IF EngineReady(ffmpegRef) /\ OutputName(run[r].i) \in fs[ffmpegRef]
       THEN /\ urls' = urls \cup {<<r, run[r].i>>}
            /\ clips' = Append(clips, Clip(r, run[r].i, run[r].timings[run[r].i + 1]))
            /\ run' = [run EXCEPT ![r].pc = "delete"]
            /\ UNCHANGED <<progress, processing>>
       ELSE /\ Throw(r, "readFailed")
            /\ UNCHANGED <<urls, clips>>
    /\ UNCHANGED <<revision, ffmpegRef, loaded, loading, abortRef, engineVars, render,
                   pureVars, sideCalls>>

\* deleteFile(outputName) settles; the loop goes on with the next clip.
DeleteOutput(r) ==
    /\ revision = "captions"
    /\ run[r].pc = "delete"
    /\ IF EngineReady(ffmpegRef) /\ OutputName(run[r].i) \in fs[ffmpegRef]
       THEN /\ fs' = [fs EXCEPT ![ffmpegRef] = @ \ {OutputName(run[r].i)}]
            /\ run' = [run EXCEPT ![r] =
                    [IdleRun EXCEPT !.pc = "loop", !.i = run[r].i + 1,
                        !.count = run[r].count, !.timings = run[r].timings,
                        !.ffmpeg = run[r].ffmpeg,
                        !.captionsRequired = run[r].captionsRequired,
                        !.asrEnabled = run[r].asrEnabled,
                        !.abortCalled = run[r].abortCalled]]
            /\ UNCHANGED <<progress, processing>>
       ELSE /\ Throw(r, "deleteFailed")
            /\ UNCHANGED fs
    /\ UNCHANGED <<revision, ffmpegRef, loaded, loading, clips, abortRef, urls,
                   engineState, execInFlight, render, pureVars, sideCalls>>

\* Lines 600-603: deleteFile('input.mp4'), stage 'complete', return.
DeleteInput(r) ==
    /\ revision = "captions"
    /\ run[r].pc = "cleanup"
    /\ IF EngineReady(ffmpegRef) /\ "input.mp4" \in fs[ffmpegRef]
       THEN /\ fs' = [fs EXCEPT ![ffmpegRef] = @ \ {"input.mp4"}]
            /\ progress' = [progress EXCEPT !.stage = "complete"]
            /\ processing' = FALSE
            /\ run' = [run EXCEPT ![r].pc = "resolved"]
       ELSE /\ Throw(r, "deleteFailed")
            /\ UNCHANGED fs
    /\ UNCHANGED <<revision, ffmpegRef, loaded, loading, clips, abortRef, urls,
                   engineState, execInFlight, render, pureVars, sideCalls>>

\* abort(): lines 614-616.
Abort ==
    /\ revision = "captions"
    /\ abortRef' = TRUE
    /\ run' = [r \in Callers |->
                  IF Active(r) THEN [run[r] EXCEPT !.abortCalled = TRUE] ELSE run[r]]
    /\ UNCHANGED <<revision, ffmpegRef, loaded, loading, processing, progress, clips,
                   urls, engineVars, render, pureVars, sideCalls>>

\* reset(): lines 618-622.
Reset ==
    /\ revision = "captions"
    /\ urls' = urls \ {clips[k].url : k \in 1..Len(clips)}
    /\ clips' = <<>>
    /\ progress' = Progress(0, 0, "idle")
    /\ UNCHANGED <<revision, ffmpegRef, loaded, loading, processing, abortRef,
                   engineVars, render, pureVars, callVars>>

\* load() called by the page, once or several times in a row before the hook
\* is rendered again: lines 60-66.  `loaded` and `loading` are what the render
\* that made the callback saw, so each call of the row reads the same values.
Load ==
    /\ revision = "captions"
    /\ loader = {}
    /\ ~(loaded \/ loading)
    /\ \E n \in 1..MaxBackToBack :
        /\ Cardinality(UnusedEngines) >= n
        /\ engineState' = [e \in Engines |->
                IF e \in FreshEngines(n) THEN "loading" ELSE engineState[e]]
        /\ ffmpegRef' = Highest(FreshEngines(n))
        /\ loader' = FreshEngines(n)
    /\ loading' = TRUE
    /\ UNCHANGED <<revision, loaded, processing, progress, clips, abortRef, urls,
                   fs, execInFlight, render, pureVars, run, aborting, preview>>

\* Lines 74-86: ffmpeg.load settles.
LoadDone ==
    /\ revision = "captions"
    /\ \E e \in loader, ok \in BOOLEAN :
        /\ engineState' = [engineState EXCEPT ![e] = IF ok THEN "ready" ELSE "failed"]
        /\ loaded' = (loaded \/ ok)
        /\ loader' = loader \ {e}
    /\ loading' = FALSE
    /\ UNCHANGED <<revision, ffmpegRef, processing, progress, clips, abortRef, urls,
                   fs, execInFlight, render, pureVars, run, aborting, preview>>

\* generateCaptionPreview, lines 138-143.  Whatever is thrown is caught and
\* the call returns null.
GenerateCaptionPreview ==
    /\ revision = "captions"
    /\ preview.pc = "idle"
    /\ IF ffmpegRef = NoEngine
       THEN /\ ~(loaded \/ loading)
            /\ HasFreshEngine
            /\ loading' = TRUE
            /\ engineState' = [engineState EXCEPT ![FreshEngine] = "loading"]
            /\ ffmpegRef' = FreshEngine
            /\ preview' = [IdlePreview EXCEPT !.pc = "load", !.waitsFor = FreshEngine]
       ELSE /\ preview' = [IdlePreview EXCEPT !.pc = "write", !.ff = ffmpegRef]
            /\ UNCHANGED <<loading, engineState, ffmpegRef>>
    /\ UNCHANGED <<revision, loaded, processing, progress, clips, abortRef, urls,
                   fs, execInFlight, render, pureVars, run, aborting, loader>>

PreviewLoadResolved ==
    /\ revision = "captions"
    /\ preview.pc = "load"
    /\ \E ok \in BOOLEAN :
        /\ engineState' = [engineState EXCEPT ![preview.waitsFor] =
                               IF ok THEN "ready" ELSE "failed"]
        /\ loaded' = (loaded \/ ok)
        /\ preview' = IF ok THEN [preview EXCEPT !.pc = "write", !.ff = ffmpegRef]
                      ELSE IdlePreview
    /\ loading' = FALSE
    /\ UNCHANGED <<revision, ffmpegRef, processing, progress, clips, abortRef, urls,
                   fs, execInFlight, render, pureVars, run, aborting, loader>>

\* Lines 142-146: writeFile('preview_input.mp4'), then extractWavPreview's exec.
PreviewWrite ==
    /\ revision = "captions"
    /\ preview.pc = "write"
    /\ IF EngineReady(preview.ff)
       THEN /\ fs' = [fs EXCEPT ![preview.ff] = @ \cup {"preview_input.mp4"}]
            /\ execInFlight' = execInFlight \cup {PreviewCaller}
            /\ preview' = [preview EXCEPT !.pc = "exec", !.waitsFor = ffmpegRef]
       ELSE /\ preview' = IdlePreview
            /\ UNCHANGED <<fs, execInFlight>>
    /\ UNCHANGED <<hookVars, engineState, render, pureVars, run, aborting, loader>>

\* The wav extraction completes; on success the ASR service is invoked.
PreviewExecDone ==
    /\ revision = "captions"
    /\ preview.pc = "exec"
    /\ PreviewCaller \in execInFlight
    /\ execInFlight' = execInFlight \ {PreviewCaller}
    /\ \E ok \in (IF EngineReady(preview.waitsFor)
                     /\ "preview_input.mp4" \in fs[preview.waitsFor]
                  THEN BOOLEAN ELSE {FALSE}) :
        preview' = IF ok THEN [preview EXCEPT !.pc = "invoke"] ELSE IdlePreview
    /\ UNCHANGED <<hookVars, engineState, fs, render, pureVars, run, aborting, loader>>

\* Lines 150-177: the service answers, preview_input.mp4 is deleted.
PreviewInvokeDone ==
    /\ revision = "captions"
    /\ preview.pc = "invoke"
    /\ fs' = IF EngineReady(preview.ff)
             THEN [fs EXCEPT ![preview.ff] = @ \ {"preview_input.mp4"}]
             ELSE fs
    /\ preview' = IdlePreview
    /\ UNCHANGED <<hookVars, engineState, execInFlight, render, pureVars, run,
                   aborting, loader>>

WorkerInit ==
    /\ ParkedPlanner
    /\ revision = "captions"
    /\ ffmpegRef = NoEngine
    /\ loaded = FALSE
    /\ loading = FALSE
    /\ processing = FALSE
    /\ progress = Progress(0, 0, "idle")
    /\ clips = <<>>
    /\ abortRef = FALSE
    /\ urls = {}
    /\ run = [r \in Callers |-> IdleRun]
    /\ aborting = "idle"
    /\ loader = {}
    /\ preview = IdlePreview
    /\ engineState = [e \in Engines |-> "unused"]
    /\ fs = [e \in Engines |-> {}]
    /\ execInFlight = {}
    /\ render = [p \in Callers |-> IdleFrame]

WorkerNext ==
    \/ Load
    \/ LoadDone
    \/ Abort
    \/ Reset
    \/ GenerateCaptionPreview
    \/ PreviewLoadResolved
    \/ PreviewWrite
    \/ PreviewExecDone
    \/ PreviewInvokeDone
    \/ \E r \in FirstCaller :
        \/ ProcessVideo(r)
        \/ LoadResolved(r)
        \/ WriteInput(r)
        \/ LoopTop(r)
        \/ AsrExecDone(r)
        \/ AsrInvokeDone(r)
        \/ EnsureFont(r)
        \/ StrategyA(r)
        \/ StrategyADone(r)
        \/ StrategyB(r)
        \/ StrategyBDone(r)
        \/ StrategyC(r)
        \/ StrategyCDone(r)
        \/ LastResort(r)
        \/ LastResortDone(r)
        \/ EncodeReturned(r)
        \/ EncodeThrew(r)
        \/ FallbackDone(r)
        \/ ReloadDone(r)
        \/ ReadOutput(r)
        \/ DeleteOutput(r)
        \/ DeleteInput(r)

SpecWorker == WorkerInit /\ [][WorkerNext]_vars

\* processVideo is called when no earlier invocation is pending.
NextRun(r) ==
    /\ \A q \in Callers : ~Active(q)
    /\ ProcessVideo(r)

\* Runs one after the other, with reset() at any time.
SessionsNext ==
    \/ Reset
    \/ \E r \in Callers :
        \/ NextRun(r)
        \/ LoadResolved(r)
        \/ WriteInput(r)
        \/ LoopTop(r)
        \/ AsrExecDone(r)
        \/ AsrInvokeDone(r)
        \/ EnsureFont(r)
        \/ StrategyA(r)
        \/ StrategyADone(r)
        \/ StrategyB(r)
        \/ StrategyBDone(r)
        \/ StrategyC(r)
        \/ StrategyCDone(r)
        \/ LastResort(r)
        \/ LastResortDone(r)
        \/ EncodeReturned(r)
        \/ EncodeThrew(r)
        \/ FallbackDone(r)
        \/ ReloadDone(r)
        \/ ReadOutput(r)
        \/ DeleteOutput(r)
        \/ DeleteInput(r)

SpecSessions == WorkerInit /\ [][SessionsNext]_vars

-----------------------------------------------------------------------------
(* useFFmpegWorker, viral revision (src/hooks/useFFmpegWorker.ts): load,    *)
(* processVideo, abort, reset.  terminate() acts at once: it rejects every  *)
(* pending call on the instance; abort() continues after one await.  The    *)
(* order in which the pending continuations run is left open.               *)

\* What processVideo is called with.
ViralConfigs ==
    {[videoDuration |-> 6, duration |-> 3, count |-> 1, speed |-> 1],
     [videoDuration |-> 6, duration |-> 3, count |-> 2, speed |-> 1]}

\* Lines 298-301 and 356: startTime = count === 1 ? 0 : Math.floor(i * interval),
\* endTime = startTime + clipDuration; times in 1/Unit s.
ViralTimings(cfg) ==
    [k \in 1..cfg.count |->
        LET availableTime == cfg.videoDuration * Unit - (cfg.duration * Unit) \div cfg.speed
            startTime == IF cfg.count = 1 THEN 0
                         ELSE ((k - 1) * availableTime) \div ((cfg.count - 1) * Unit)
        IN  [startTime |-> startTime * Unit,
             endTime |-> startTime * Unit + cfg.duration * Unit]]

\* `viral_clip_${i + 1}.mp4`
ViralOutputName(i) == "viral_clip_" \o ToString(i + 1) \o ".mp4"

\* The ProcessedClip of lines 460-468.
ViralClip(r, i, timing) ==
    [run |-> r, index |-> i, name |-> "viral_" \o ToString(i + 1) \o ".mp4",
     url |-> <<r, i>>, startTime |-> timing.startTime, endTime |-> timing.endTime]

\* cleanupFile: deleteFile with its errors swallowed.
cleanupFile(files, engine, filename) ==
    IF EngineReady(engine) THEN [files EXCEPT ![engine] = @ \ {filename}] ELSE files

\* Lines 286-321, up to `await fetchFile(file)`.
ViralBegin(r, rec) ==
    /\ abortRef' = FALSE
    /\ processing' = TRUE
    /\ clips' = <<>>
    /\ progress' = Progress(0, rec.count, "reading-file")
    /\ run' = [run EXCEPT ![r] = [rec EXCEPT !.pc = "write", !.ffmpeg = ffmpegRef]]

\* Lines 348-425: the top of the loop up to `await ffmpeg.exec`, or the way
\* out of the loop up to `await cleanupFile(ffmpeg, 'input.mp4')`.
ViralLoopTop(r, rec) ==
    IF rec.i < rec.count /\ ~abortRef
    THEN /\ progress' = Progress(rec.i + 1, rec.count, "encoding")
         /\ execInFlight' = execInFlight \cup {r}
         /\ run' = [run EXCEPT ![r] = [rec EXCEPT !.pc = "exec"]]
    ELSE /\ progress' = IF rec.i < rec.count
                        THEN [progress EXCEPT !.stage = "aborted"]
                        ELSE progress
         /\ run' = [run EXCEPT ![r] = [rec EXCEPT !.pc = "cleanup_input"]]
         /\ UNCHANGED execInFlight

\* load(): lines 104-114.  A call that follows in the same row finds
\* ffmpegRef.current set and returns.
ViralLoad ==
    /\ revision = "viral"
    /\ loader = {}
    /\ ~(ffmpegRef # NoEngine \/ loading)
    /\ HasFreshEngine
    /\ loading' = TRUE
    /\ progress' = [progress EXCEPT !.stage = "loading-ffmpeg"]
    /\ engineState' = [engineState EXCEPT ![FreshEngine] = "loading"]
    /\ ffmpegRef' = FreshEngine
    /\ loader' = {FreshEngine}
    /\ UNCHANGED <<revision, loaded, processing, clips, abortRef, urls,
                   fs, execInFlight, render, pureVars, run, aborting, preview>>

\* What a pending ffmpeg.load can settle as: terminate() rejects it.
LoadOutcomes(engine) == IF engineState[engine] = "terminated" THEN {FALSE} ELSE BOOLEAN

Settled(engine, ok) ==
    IF engineState[engine] = "terminated" THEN engineState
    ELSE [engineState EXCEPT ![engine] = IF ok THEN "ready" ELSE "failed"]

\* Lines 127-141.
ViralLoadDone ==
    /\ revision = "viral"
    /\ \E e \in loader, ok \in BOOLEAN :
        /\ ok \in LoadOutcomes(e)
        /\ engineState' = Settled(e, ok)
        /\ loaded' = (loaded \/ ok)
        /\ progress' = [progress EXCEPT !.stage = IF ok THEN "idle" ELSE "error"]
    /\ loading' = FALSE
    /\ loader' = {}
    /\ UNCHANGED <<revision, ffmpegRef, processing, clips, abortRef, urls,
                   fs, execInFlight, render, pureVars, run, aborting, preview>>

\* processVideo is called: lines 276-321.
ViralProcessVideo(r) ==
    /\ revision = "viral"
    /\ run[r].pc = "idle"
    /\ \A q \in Callers : q < r => run[q].pc # "idle"
    /\ \E cfg \in ViralConfigs :
        LET rec == [IdleRun EXCEPT !.timings = ViralTimings(cfg), !.count = cfg.count]
        IN  IF ffmpegRef # NoEngine
            THEN /\ ViralBegin(r, rec)
                 /\ UNCHANGED <<engineState, ffmpegRef, loading>>
            ELSE IF loading
            THEN /\ run' = [run EXCEPT ![r] =
                        [rec EXCEPT !.pc = "rejected", !.error = "notLoaded"]]
                 /\ UNCHANGED <<engineState, ffmpegRef, loading, abortRef, processing,
                                clips, progress>>
            ELSE /\ HasFreshEngine
                 /\ loading' = TRUE
                 /\ progress' = [progress EXCEPT !.stage = "loading-ffmpeg"]
                 /\ engineState' = [engineState EXCEPT ![FreshEngine] = "loading"]
                 /\ ffmpegRef' = FreshEngine
                 /\ run' = [run EXCEPT ![r] =
                        [rec EXCEPT !.pc = "load", !.waitsFor = FreshEngine]]
                 /\ UNCHANGED <<abortRef, processing, clips>>
    /\ UNCHANGED <<revision, loaded, urls, fs, execInFlight, render, pureVars, sideCalls>>

\* `await load()` of line 278 settles; lines 281-321.
ViralLoadResolved(r) ==
    /\ revision = "viral"
    /\ run[r].pc = "load"
    /\ \E ok \in LoadOutcomes(run[r].waitsFor) :
        /\ engineState' = Settled(run[r].waitsFor, ok)
        /\ loaded' = (loaded \/ ok)
        /\ IF ok /\ ffmpegRef # NoEngine
           THEN ViralBegin(r, run[r])
           ELSE /\ progress' = [progress EXCEPT !.stage = IF ok THEN "idle" ELSE "error"]
                /\ run' = [run EXCEPT ![r].pc = "rejected",
                                      ![r].error = IF ok THEN "notLoaded" ELSE "loadFailed"]
                /\ UNCHANGED <<abortRef, processing, clips>>
    /\ loading' = FALSE
    /\ UNCHANGED <<revision, ffmpegRef, urls, fs, execInFlight, render, pureVars,
                   sideCalls>>

\* Lines 321-344: fetchFile, writeFile('input.mp4'), stage 'analyzing'.
ViralWriteInput(r) ==
    /\ revision = "viral"
    /\ run[r].pc = "write"
    /\ IF EngineReady(run[r].ffmpeg)
       THEN /\ fs' = [fs EXCEPT ![run[r].ffmpeg] = @ \cup {"input.mp4"}]
            /\ progress' = [progress EXCEPT !.stage = "analyzing"]
            /\ run' = [run EXCEPT ![r].pc = "analyze"]
       ELSE /\ run' = [run EXCEPT ![r].pc = "catch", ![r].error = "notLoaded"]
            /\ UNCHANGED <<fs, progress>>
    /\ UNCHANGED <<revision, ffmpegRef, loaded, loading, processing, clips, abortRef,
                   urls, engineState, execInFlight, render, pureVars, sideCalls>>

\* The dimensions of the video are known; the loop starts.
ViralAnalyzed(r) ==
    /\ revision = "viral"
    /\ run[r].pc = "analyze"
    /\ ViralLoopTop(r, run[r])
    /\ UNCHANGED <<revision, ffmpegRef, loaded, loading, processing, clips, abortRef,
                   urls, engineState, fs, render, pureVars, sideCalls>>

\* What the encode of a clip can answer; terminate() rejects it.
ViralExecOutcomes(engine) ==
    IF engineState[engine] = "terminated" THEN {"terminated"}
    ELSE IF ~EngineReady(engine) THEN {"notLoaded"}
    ELSE IF "input.mp4" \notin fs[engine] THEN {"exit1"}
    ELSE {"exit0", "exit1", "aborted"}

\* Lines 425-444: exec settles.
ViralExecDone(r) ==
    /\ revision = "viral"
    /\ run[r].pc = "exec"
    /\ r \in execInFlight
    /\ execInFlight' = execInFlight \ {r}
    /\ \E o \in ViralExecOutcomes(run[r].ffmpeg) :
        IF o = "exit0"
        THEN /\ fs' = [fs EXCEPT ![run[r].ffmpeg] = @ \cup {ViralOutputName(run[r].i)}]
             /\ IF abortRef
                THEN /\ run' = [run EXCEPT ![r].pc = "cleanup_aborted"]
                     /\ UNCHANGED progress
                ELSE /\ run' = [run EXCEPT ![r].pc = "read"]
                     /\ progress' = [progress EXCEPT !.stage = "finalizing"]
        ELSE /\ run' = [run EXCEPT ![r].pc = "catch", ![r].error = o]
             /\ UNCHANGED <<fs, progress>>
    /\ UNCHANGED <<revision, ffmpegRef, loaded, loading, processing, clips, abortRef,
                   urls, engineState, render, pureVars, sideCalls>>

\* Line 444: readFile settles; line 447 awaits cleanupFile.
ViralReadDone(r) ==
    /\ revision = "viral"
    /\ run[r].pc = "read"
    /\ run' = IF EngineReady(run[r].ffmpeg)
                 /\ ViralOutputName(run[r].i) \in fs[run[r].ffmpeg]
              THEN [run EXCEPT ![r].pc = "cleanup_output"]
              ELSE [run EXCEPT ![r].pc = "catch", ![r].error = "readFailed"]
    /\ UNCHANGED <<hookVars, engineVars, render, pureVars, sideCalls>>

\* `await cleanupFile(ffmpeg, outputFileName)` settles.  After line 447 the clip
\* is published and the next iteration starts (lines 450-474); after line 434
\* the loop is left (line 435).  terminate() rejects the pending exec, so the
\* test of line 433 finds the flag set in no run of this model.
ViralCleanupOutputDone(r) ==
    /\ revision = "viral"
    /\ run[r].pc \in {"cleanup_output", "cleanup_aborted"}
    /\ fs' = cleanupFile(fs, run[r].ffmpeg, ViralOutputName(run[r].i))
    /\ IF run[r].pc = "cleanup_output"
       THEN /\ urls' = urls \cup {<<r, run[r].i>>}
            /\ clips' = Append(clips, ViralClip(r, run[r].i, run[r].timings[run[r].i + 1]))
            /\ ViralLoopTop(r, [run[r] EXCEPT !.i = @ + 1])
       ELSE /\ run' = [run EXCEPT ![r].pc = "cleanup_input"]
            /\ UNCHANGED <<urls, clips, progress, execInFlight>>
    /\ UNCHANGED <<revision, ffmpegRef, loaded, loading, processing, abortRef,
                   engineState, render, pureVars, sideCalls>>

\* Lines 477-489 and 503-506.
ViralCleanupInputDone(r) ==
    /\ revision = "viral"
    /\ run[r].pc = "cleanup_input"
    /\ fs' = cleanupFile(fs, run[r].ffmpeg, "input.mp4")
    /\ progress' = IF ~abortRef THEN Progress(run[r].count, run[r].count, "complete")
                   ELSE progress
    /\ processing' = FALSE
    /\ run' = [run EXCEPT ![r].pc = "resolved"]
    /\ UNCHANGED <<revision, ffmpegRef, loaded, loading, clips, abortRef, urls,
                   engineState, execInFlight, render, pureVars, sideCalls>>

\* A catch block that withdraws the clips already published.
ViralCatchCleanupDone_ClearsClips(r) ==
    /\ revision = "viral"
    /\ run[r].pc = "catch"
    /\ fs' = cleanupFile(fs, run[r].ffmpeg, "input.mp4")
    /\ progress' = [progress EXCEPT !.stage = "error"]
    /\ processing' = FALSE
    /\ clips' = <<>>
    /\ run' = [run EXCEPT ![r].pc = "rejected"]
    /\ UNCHANGED <<revision, ffmpegRef, loaded, loading, abortRef, urls,
                   engineState, execInFlight, render, pureVars, sideCalls>>

\* Lines 490-506: the catch block after its cleanupFile.
ViralCatchCleanupDone(r) ==
    /\ revision = "viral"
    /\ run[r].pc = "catch"
    /\ fs' = cleanupFile(fs, run[r].ffmpeg, "input.mp4")
    /\ progress' = [progress EXCEPT !.stage = "error"]
    /\ processing' = FALSE
    /\ run' = [run EXCEPT ![r].pc = "rejected"]
    /\ UNCHANGED <<revision, ffmpegRef, loaded, loading, clips, abortRef, urls,
                   engineState, execInFlight, render, pureVars, sideCalls>>

\* abort(): lines 509-521.  terminate() rejects what is pending on the
\* instance and drops its working storage.
ViralAbort ==
    /\ revision = "viral"
    /\ aborting = "idle"
    /\ abortRef' = TRUE
    /\ run' = [r \in Callers |->
                  IF run[r].pc = "exec" THEN [run[r] EXCEPT !.abortCalled = TRUE]
                  ELSE run[r]]
    /\ IF ffmpegRef # NoEngine
       THEN /\ engineState' = [engineState EXCEPT ![ffmpegRef] = "terminated"]
            /\ fs' = [fs EXCEPT ![ffmpegRef] = {}]
            /\ aborting' = "terminating"
            /\ UNCHANGED <<processing, progress>>
       ELSE /\ processing' = FALSE
            /\ progress' = [progress EXCEPT !.stage = "aborted"]
            /\ UNCHANGED <<engineState, fs, aborting>>
    /\ UNCHANGED <<revision, ffmpegRef, loaded, loading, clips, urls, execInFlight,
                   render, pureVars, loader, preview>>

\* Lines 522-533: after `await terminate()`.
ViralAbortDone ==
    /\ revision = "viral"
    /\ aborting = "terminating"
    /\ ffmpegRef' = NoEngine
    /\ loaded' = FALSE
    /\ processing' = FALSE
    /\ progress' = [progress EXCEPT !.stage = "aborted"]
    /\ aborting' = "idle"
    /\ UNCHANGED <<revision, loading, clips, abortRef, urls, engineVars, render,
                   pureVars, run, loader, preview>>

\* reset(): lines 536-552.
ViralReset ==
    /\ revision = "viral"
    /\ urls' = urls \ {clips[k].url : k \in 1..Len(clips)}
    /\ clips' = <<>>
    /\ progress' = Progress(0, 0, "idle")
    /\ abortRef' = FALSE
    /\ UNCHANGED <<revision, ffmpegRef, loaded, loading, processing,
                   engineVars, render, pureVars, callVars>>

HookInit ==
    /\ ParkedPlanner
    /\ revision = "viral"
    /\ ffmpegRef = NoEngine
    /\ loaded = FALSE
    /\ loading = FALSE
    /\ processing = FALSE
    /\ progress = Progress(0, 0, "idle")
    /\ clips = <<>>
    /\ abortRef = FALSE
    /\ urls = {}
    /\ run = [r \in Callers |-> IdleRun]
    /\ aborting = "idle"
    /\ loader = {}
    /\ preview = IdlePreview
    /\ engineState = [e \in Engines |-> "unused"]
    /\ fs = [e \in Engines |-> {}]
    /\ execInFlight = {}
    /\ render = [p \in Callers |-> IdleFrame]

HookNext ==
    \/ ViralLoad
    \/ ViralLoadDone
    \/ ViralAbort
    \/ ViralAbortDone
    \/ ViralReset
    \/ \E r \in FirstCaller :
        \/ ViralProcessVideo(r)
        \/ ViralLoadResolved(r)
        \/ ViralWriteInput(r)
        \/ ViralAnalyzed(r)
        \/ ViralExecDone(r)
        \/ ViralReadDone(r)
        \/ ViralCleanupOutputDone(r)
        \/ ViralCleanupInputDone(r)
        \/ ViralCatchCleanupDone(r)

SpecHook == HookInit /\ [][HookNext]_vars

\* Both revisions of the hook.
SpecHooks == (WorkerInit \/ HookInit) /\ [][WorkerNext \/ HookNext]_vars

-----------------------------------------------------------------------------
(* useAudioAnalyzer: analyzeAudio (part_000).                               *)
(*                                                                         *)
(* The decoded waveform is given by the RMS energy of each of its analysis  *)
(* windows of 0.1 s, an integer level; a stretch of constant amplitude a    *)
(* that fills whole windows gives each of them the energy a.  Times are     *)
(* counted in half windows (0.05 s): window i, counted from 0, has the      *)
(* time (i * windowSize + windowSize / 2) / sampleRate = 2 * i + 1.         *)

\* time of the window at place k of windowEnergies (k = i + 1)
WindowTime(k) == 2 * (k - 1) + 1

\* Intensities are fractions energy / maxEnergy, kept as integers on a scale
\* that makes each of them, and the threshold 0.3, exact.
IntensityScale == 10 * LcmUpTo(MaxAmplitude)
threshold == (3 * IntensityScale) \div 10

MaxOf(S) == CHOOSE x \in S : \A y \in S : y <= x

\* normalizedEnergies
normalizedEnergies(windowEnergies) ==
    LET maxEnergy == MaxOf({windowEnergies[k] : k \in 1..Len(windowEnergies)})
    IN  [k \in 1..Len(windowEnergies) |->
            [time |-> WindowTime(k),
             intensity |-> IF maxEnergy > 0
                           THEN (windowEnergies[k] * IntensityScale) \div maxEnergy
                           ELSE 0]]

\* The loop over i = 1 .. length - 2 that collects the local maxima, from
\* place k on.
RECURSIVE allPeaks(_, _)
allPeaks(ne, k) ==
    IF k > Len(ne) - 1 THEN <<>>
    ELSE LET prev == ne[k - 1].intensity
             curr == ne[k].intensity
             next == ne[k + 1].intensity
         IN  (IF curr > prev /\ curr > next /\ curr > threshold
              THEN <<[time |-> ne[k].time, intensity |-> curr]>>
              ELSE <<>>)
             \o allPeaks(ne, k + 1)

Abs(x) == IF x < 0 THEN -x ELSE x

\* Variant of the loop over sortedPeaks without the distance test.
RECURSIVE filteredPeaks_NoDistance(_, _, _, _)
filteredPeaks_NoDistance(sortedPeaks, kept, minPeakDistance, numPeaks) ==
    IF sortedPeaks = <<>> THEN kept
    ELSE IF Len(kept) + 1 >= numPeaks THEN Append(kept, Head(sortedPeaks))
    ELSE filteredPeaks_NoDistance(Tail(sortedPeaks), Append(kept, Head(sortedPeaks)),
                                  minPeakDistance, numPeaks)

\* The loop over sortedPeaks: keep a peak that is not too close to a kept
\* one, stop at numPeaks.
RECURSIVE filteredPeaks(_, _, _, _)
filteredPeaks(sortedPeaks, kept, minPeakDistance, numPeaks) ==
    IF sortedPeaks = <<>> THEN kept
    ELSE LET peak == Head(sortedPeaks)
             tooClose == \E k \in 1..Len(kept) :
                             Abs(kept[k].time - peak.time) < minPeakDistance
         IN  IF tooClose
             THEN filteredPeaks(Tail(sortedPeaks), kept, minPeakDistance, numPeaks)
             ELSE IF Len(kept) + 1 >= numPeaks THEN Append(kept, peak)
             ELSE filteredPeaks(Tail(sortedPeaks), Append(kept, peak),
                                minPeakDistance, numPeaks)

\* Variant that selects among the local maxima in the order of their times.
analyzeAudio_InTimeOrder(windowEnergies, minPeakDistance, numPeaks) ==
    LET ne == normalizedEnergies(windowEnergies)
    IN  StableSort("time", filteredPeaks(allPeaks(ne, 2), <<>>, minPeakDistance, numPeaks))

\* The peaks of the AudioAnalysisResult.
analyzeAudio(windowEnergies, minPeakDistance, numPeaks) ==
    LET ne == normalizedEnergies(windowEnergies)
        sortedPeaks == StableSort("intensityDesc", allPeaks(ne, 2))
    IN  StableSort("time", filteredPeaks(sortedPeaks, <<>>, minPeakDistance, numPeaks))

\* Analyzer specification: every waveform of NumWindows windows, one call.
PeaksInit ==
    /\ ParkedEngine
    /\ ParkedHook
    /\ videoDuration = 1
    /\ config = [duration |-> 1, count |-> 1]
    /\ audioHighlights = <<>>
    /\ timings = <<>>
    /\ planner = "parked"
    /\ fnArgs \in [fn : {"analyzeAudio"},
                    windowEnergies : [1..NumWindows -> 0..MaxAmplitude],
                    minPeakDistance : {2 * d : d \in 1..MaxPeakDistance},
                    numPeaks : 1..MaxPeaks]
    /\ fnResult = NotReturned

AnalyzeAudio ==
    /\ fnArgs.fn = "analyzeAudio"
    /\ ~fnResult.returned
    /\ fnResult' = [returned |-> TRUE,
                    peaks |-> analyzeAudio(fnArgs.windowEnergies, fnArgs.minPeakDistance,
                                           fnArgs.numPeaks)]
    /\ UNCHANGED <<fnArgs, plannerVars, engineVars, render, hookVars, callVars>>

PeaksNext == AnalyzeAudio

SpecPeaks == PeaksInit /\ [][PeaksNext]_vars

-----------------------------------------------------------------------------
(* Overlay specification: the overlay list of Strategy C (lines 366-392)    *)
(* for up to MaxOverlaySegments normalized segments, with and without hook  *)

\* n normalized segments of one length, one after the other.
SegmentRun(n, length) ==
    [k \in 1..n |-> [text |-> <<"a">>, start |-> (k - 1) * length, end |-> k * length]]

OverlayInit ==
    /\ ParkedEngine
    /\ ParkedHook
    /\ videoDuration = 1
    /\ config = [duration |-> 1, count |-> 1]
    /\ audioHighlights = <<>>
    /\ timings = <<>>
    /\ planner = "parked"
    /\ \E n \in 0..MaxOverlaySegments, length \in {minLen, minLen + 1}, hook \in {<<>>, <<"a">>} :
          fnArgs = [fn |-> "overlays", hookText |-> hook,
                    segments |-> SegmentRun(n, length),
                    duration |-> Max(1, n * length)]
    /\ fnResult = NotReturned

BuildOverlays ==
    /\ fnArgs.fn = "overlays"
    /\ ~fnResult.returned
    /\ fnResult' = [returned |-> TRUE, overlays |-> OverlaysOf(fnArgs)]
    /\ UNCHANGED <<fnArgs, plannerVars, engineVars, render, hookVars, callVars>>

OverlayNext == BuildOverlays

SpecOverlays == OverlayInit /\ [][OverlayNext]_vars

-----------------------------------------------------------------------------
(* Normalizer specification: normalizeCaptionSegments on lists of up to     *)
(* MaxNormalized segments with times before 0, inside and past the clip,    *)
(* ends before starts, and texts with characters to strip                   *)

RawTexts == { <<"a">>, <<"^A">>, <<" ", "a", "LF", "a", "BOM">> }

RawSegments == [text : RawTexts, start : {-5, 10}, end : {0, 11, 25, 60}]

RawSegmentLists == UNION { [1..n -> RawSegments] : n \in 0..MaxNormalized }

NormalizeInit ==
    /\ ParkedEngine
    /\ ParkedHook
    /\ videoDuration = 1
    /\ config = [duration |-> 1, count |-> 1]
    /\ audioHighlights = <<>>
    /\ timings = <<>>
    /\ planner = "parked"
    /\ fnArgs \in [fn : {"normalizeCaptionSegments"},
                    segments : RawSegmentLists,
                    duration : {0, 20, 50}]
    /\ fnResult = NotReturned

NormalizeCaptionSegments ==
    /\ fnArgs.fn = "normalizeCaptionSegments"
    /\ ~fnResult.returned
    /\ fnResult' = [returned |-> TRUE,
                    segments |-> normalizeCaptionSegments(fnArgs.segments,
                                                          fnArgs.duration)]
    /\ UNCHANGED <<fnArgs, plannerVars, engineVars, render, hookVars, callVars>>

NormalizeNext == NormalizeCaptionSegments

SpecNormalize == NormalizeInit /\ [][NormalizeNext]_vars

-----------------------------------------------------------------------------
(* segmentTranscription (hooks/useASRTranscription.ts).                     *)
(*                                                                         *)
(* A word is [word, start, end]: its text, a sequence of characters of      *)
(* which "." ends a sentence and " " is white space, and its times in       *)
(* tenths of a second.                                                      *)

pauseGap == 5
DefaultMaxWordsPerSegment == 6
DefaultMaxSegmentDuration == 30

\* /[.!?]$/.test(word.word)
hasSentenceEnd(word) ==
    word.word # <<>> /\ word.word[Len(word.word)] \in {".", "!", "?"}

\* currentSegment.map(w => w.word).join(' ')
RECURSIVE JoinWords(_)
JoinWords(ws) ==
    IF ws = <<>> THEN <<>>
    ELSE IF Len(ws) = 1 THEN ws[1].word
    ELSE ws[1].word \o <<" ">> \o JoinWords(Tail(ws))

\* Variant of the break conditions without the pause.
ShouldBreak_NoPause(words, i, wordCount, segmentStart, maxWordsPerSegment, maxSegmentDuration) ==
    \/ wordCount >= maxWordsPerSegment
    \/ words[i].end - segmentStart >= maxSegmentDuration
    \/ hasSentenceEnd(words[i])
    \/ i = Len(words)

\* Variant of the break conditions that closes a segment one word early.
ShouldBreak_OneWordEarly(words, i, wordCount, segmentStart, maxWordsPerSegment, maxSegmentDuration) ==
    \/ wordCount >= maxWordsPerSegment - 1
    \/ i < Len(words) /\ words[i + 1].start - words[i].end > pauseGap
    \/ words[i].end - segmentStart >= maxSegmentDuration
    \/ hasSentenceEnd(words[i])
    \/ i = Len(words)

\* Variant of the break conditions that closes a full segment one word late.
ShouldBreak_OneWordLate(words, i, wordCount, segmentStart, maxWordsPerSegment, maxSegmentDuration) ==
    \/ wordCount > maxWordsPerSegment
    \/ i < Len(words) /\ words[i + 1].start - words[i].end > pauseGap
    \/ words[i].end - segmentStart >= maxSegmentDuration
    \/ hasSentenceEnd(words[i])
    \/ i = Len(words)

\* hasMaxWords || hasPause || hasMaxDuration || hasSentenceEnd || isLastWord,
\* at word i (counted from 1).
ShouldBreak(words, i, wordCount, segmentStart, maxWordsPerSegment, maxSegmentDuration) ==
    \/ wordCount >= maxWordsPerSegment
    \/ i < Len(words) /\ words[i + 1].start - words[i].end > pauseGap
    \/ words[i].end - segmentStart >= maxSegmentDuration
    \/ hasSentenceEnd(words[i])
    \/ i = Len(words)

\* The loop over the words, from word i on.
RECURSIVE SegmentLoop(_, _, _, _, _, _, _)
SegmentLoop(words, i, currentSegment, segmentStart, segments, maxWordsPerSegment, maxSegmentDuration) ==
    IF i > Len(words) THEN segments
    ELSE LET current == Append(currentSegment, words[i])
         IN  IF ShouldBreak(words, i, Len(current), segmentStart, maxWordsPerSegment,
                            maxSegmentDuration)
             THEN LET text == trim(JoinWords(current))
                      pushed == IF text # <<>>
                                THEN Append(segments, [text |-> text,
                                                       start |-> segmentStart,
                                                       end |-> words[i].end])
                                ELSE segments
                  IN  SegmentLoop(words, i + 1, <<>>,
                                  IF i < Len(words) THEN words[i + 1].start
                                  ELSE segmentStart,
                                  pushed, maxWordsPerSegment, maxSegmentDuration)
             ELSE SegmentLoop(words, i + 1, current, segmentStart, segments,
                              maxWordsPerSegment, maxSegmentDuration)

segmentTranscription(words, maxWordsPerSegment, maxSegmentDuration) ==
    IF words = <<>> THEN <<>>
    ELSE SegmentLoop(words, 1, <<>>, words[1].start, <<>>, maxWordsPerSegment,
                     maxSegmentDuration)

\* Word streams of the specification: n words of one length, a pause of
\* 0.6 s after word pauseAfter, a full stop on word punctAt, a blank word at
\* blankAt (0: none).
WordStream(n, length, pauseAfter, punctAt, blankAt) ==
    [k \in 1..n |->
        LET start == (k - 1) * length
                     + (IF pauseAfter \in 1..(k - 1) THEN pauseGap + 1 ELSE 0)
        IN  [word |-> IF k = blankAt THEN <<" ">>
                      ELSE IF k = punctAt THEN <<"a", ".">>
                      ELSE <<"a">>,
             start |-> start, end |-> start + length]]

\* Words as the transcription service may time them: ends at or before
\* the start, starts out of order; one text with a leading blank.
LooseWords ==
    [word : { <<"a">>, <<"b", ".">>, <<" ", "c">> }, start : {0, 10}, end : {0, 4, 12}]

LooseStreams == UNION { [1..n -> LooseWords] : n \in 1..MaxLooseWords }

WordStreams ==
    {WordStream(n, length, pauseAfter, punctAt, blankAt) :
        n \in 4..MaxWords, length \in {3, 5, 6}, pauseAfter \in 0..3,
        punctAt \in {0, 2, 6}, blankAt \in {0, 3, 4}}
    \cup LooseStreams

SegmenterInit ==
    /\ ParkedEngine
    /\ ParkedHook
    /\ videoDuration = 1
    /\ config = [duration |-> 1, count |-> 1]
    /\ audioHighlights = <<>>
    /\ timings = <<>>
    /\ planner = "parked"
    /\ fnArgs \in [fn : {"segmentTranscription"},
                    words : WordStreams,
                    maxWordsPerSegment : {1, 3, DefaultMaxWordsPerSegment},
                    maxSegmentDuration : {10, DefaultMaxSegmentDuration}]
    /\ fnResult = NotReturned

SegmentTranscription ==
    /\ fnArgs.fn = "segmentTranscription"
    /\ ~fnResult.returned
    /\ fnResult' = [returned |-> TRUE,
                    segments |-> segmentTranscription(fnArgs.words,
                                     fnArgs.maxWordsPerSegment,
                                     fnArgs.maxSegmentDuration)]
    /\ UNCHANGED <<fnArgs, plannerVars, engineVars, render, hookVars, callVars>>

SegmenterNext == SegmentTranscription

SpecSegmenter == SegmenterInit /\ [][SegmenterNext]_vars

-----------------------------------------------------------------------------
(* The crop of buildFilterChain (hooks/useFFmpegWorker.ts).                 *)
(*                                                                         *)
(* Only the crop filter of the chain is followed.  targetRatio = 9 / 16 is  *)
(* exact in binary floating point, and so are the products and quotients    *)
(* of the dimensions below up to the floor the code takes, hence the        *)
(* integer arithmetic.                                                      *)

targetRatioNum == 9
targetRatioDen == 16

\* cropW - (cropW % 2)
FloorToEven(n) == n - (n % 2)

\* [cropW, cropH] of the filter crop=cropW:cropH:(in_w-cropW)/2:(in_h-cropH)/2
cropRect(inputWidth, inputHeight) ==
    IF inputWidth * targetRatioDen > inputHeight * targetRatioNum
    THEN [cropW |-> FloorToEven((inputHeight * targetRatioNum) \div targetRatioDen),
          cropH |-> FloorToEven(inputHeight)]
    ELSE [cropW |-> FloorToEven(inputWidth),
          cropH |-> FloorToEven((inputWidth * targetRatioDen) \div targetRatioNum)]

\* Frame sizes of the sources of the specification.
SourceWidths == {360, 540, 607, 608, 720, 1080, 1280, 1920, 3840}
SourceHeights == {360, 480, 640, 720, 1080, 1920, 2160}

CropInit ==
    /\ ParkedEngine
    /\ ParkedHook
    /\ videoDuration = 1
    /\ config = [duration |-> 1, count |-> 1]
    /\ audioHighlights = <<>>
    /\ timings = <<>>
    /\ planner = "parked"
    /\ fnArgs \in [fn : {"buildFilterChain"},
                    inputWidth : SourceWidths,
                    inputHeight : SourceHeights]
    /\ fnResult = NotReturned

BuildFilterChain ==
    /\ fnArgs.fn = "buildFilterChain"
    /\ ~fnResult.returned
    /\ fnResult' = [returned |-> TRUE,
                    crop |-> cropRect(fnArgs.inputWidth, fnArgs.inputHeight)]
    /\ UNCHANGED <<fnArgs, plannerVars, engineVars, render, hookVars, callVars>>

CropNext == BuildFilterChain

SpecCrop == CropInit /\ [][CropNext]_vars

-----------------------------------------------------------------------------
(* Claims about the caption compositor *)

Failed(f) == {k \in 1..Len(f.execLog) : ~f.execLog[k].ok}
PlainEncodes(f) == {k \in 1..Len(f.execLog) : f.execLog[k].captions = <<>>}
HasCaptionContent(f) == f.hookText # <<>> \/ f.segments # <<>>

\* C1, as stated: renderCaptionsWithFallback called with captionsRequired =
\* false never throws, whichever encode attempts fail.
C1_NeverThrowsWhenNotRequired ==
    \A p \in Callers : render[p].pc = "threw" => render[p].captionsRequired

\* C1, amended: with captionsRequired = false the call throws only after
\* every encode it attempted has failed, the last of them the plain encode
\* of the last resort; a call that returns carries a result.
C1_ThrowsOnlyAfterPlainEncodeFailed ==
    \A p \in Callers :
        LET f == render[p]
        IN  /\ (f.pc = "threw" /\ ~f.captionsRequired) =>
                /\ f.execLog # <<>>
                /\ Failed(f) = 1..Len(f.execLog)
                /\ Len(f.execLog) \in PlainEncodes(f)
            /\ f.pc = "returned" =>
                /\ f.result # NoResult
                /\ f.execLog[Len(f.execLog)].ok

C1_Witness ==
    \E p \in Callers :
        /\ render[p].pc = "threw"
        /\ ~render[p].captionsRequired
        /\ Len(render[p].execLog) >= 2

\* C2, as stated: for both values of captionsRequired, the call completes
\* with a result whenever the plain encode of the clip is viable.
C2_CompletesWhenPlainViable ==
    \A p \in Callers : render[p].pc = "threw" => ~render[p].plainViable

\* C2, amended: when the plain encode is viable the call completes with a
\* result if captions are not required, or if the normalized input has
\* nothing to draw; with required captions that have content, the failure of
\* every caption-bearing strategy is raised although the plain encode is
\* viable.
C2_CompletesUnlessRequiredCaptionsFail ==
    \A p \in Callers :
        LET f == render[p]
        IN  (f.pc = "threw" /\ f.plainViable) =>
                /\ f.captionsRequired
                /\ HasCaptionContent(f)
                /\ PlainEncodes(f) = {}

C2_Witness ==
    \E p \in Callers :
        LET f == render[p]
        IN  /\ f.pc = "returned"
            /\ f.plainViable
            /\ f.result.usedStrategy = "no_captions"
            /\ \E k \in Failed(f) : f.execLog[k].captions # <<>>

\* C16: normalizing the segments a call has normalized gives the same list.
C16_NormalizeIdempotent ==
    \A p \in Callers :
        render[p].pc # "idle"
        => normalizeCaptionSegments(render[p].segments, render[p].duration)
               = render[p].segments

\* A call whose first pass moved the start of the second segment to the end
\* of the first.
C16_Witness ==
    \E p \in Callers :
        /\ render[p].pc # "idle"
        /\ Len(render[p].captions.segments) = 2
        /\ Len(render[p].segments) = 2
        /\ render[p].segments[2].start = render[p].segments[1].end
        /\ \A k \in 1..2 : render[p].captions.segments[k].start
                                # render[p].segments[2].start

\* The call has passed ensureFontInFS and the font was not staged.
FontStagingFailed(f) == f.pc \notin {"idle", "font"} /\ ~f.fontLoaded

\* The encodes a call has invoked so far, the one in flight last.
Invoked(f) ==
    [k \in 1..Len(f.execLog) |-> [strategy |-> f.execLog[k].strategy,
                                  captions |-> f.execLog[k].captions]]
    \o f.pending

DrawtextStrategies == {"A_drawtext", "B_drawtext_safe"}

NoDrawtextEncode(f) ==
    /\ f.pc \notin {"A", "A_exec", "B", "B_exec"}
    /\ \A k \in 1..Len(Invoked(f)) : Invoked(f)[k].strategy \notin DrawtextStrategies

\* The first encode of the call is in flight.
FirstEncodePending(f) == f.execLog = <<>> /\ f.pending # <<>>

\* C24 as stated: after a failed font staging no drawtext encode is invoked
\* and the first encode invoked is that of Strategy C.
C24_FontFailureFirstEncodeIsC ==
    \A p \in Callers :
        LET f == render[p]
        IN  FontStagingFailed(f) =>
                /\ NoDrawtextEncode(f)
                /\ FirstEncodePending(f) => f.pc = "C_exec"

\* C24: after a failed font staging no drawtext encode is invoked; the first
\* encode invoked is that of Strategy C, or the plain encode of the last
\* resort when Strategy C had overlays to prepare and captions are not
\* required.
C24_FontFailureSkipsDrawtext ==
    \A p \in Callers :
        LET f == render[p]
        IN  FontStagingFailed(f) =>
                /\ NoDrawtextEncode(f)
                /\ FirstEncodePending(f) =>
                       \/ f.pc = "C_exec"
                       \/ /\ f.pc = "last_exec"
                          /\ ~f.captionsRequired
                          /\ OverlaysOf(f) # <<>>

C24_Witness ==
    \E p \in Callers :
        /\ FontStagingFailed(render[p])
        /\ FirstEncodePending(render[p])
        /\ render[p].pc = "C_exec"
        /\ render[p].pending[1].strategy = "C_overlay_images"

\* C25: Strategy C hands at most 15 overlays to its encode, the hook overlay
\* counted, for any number of normalized segments; 20 segments without hook
\* give at most 15 merged groups.
C25_OverlayBudget ==
    (fnArgs.fn = "overlays" /\ fnResult.returned) =>
        Len(fnResult.overlays) <= MAX_OVERLAYS

\* 20 segments and no hook: merged two by two into 10 overlays.
C25_Witness ==
    /\ fnArgs.fn = "overlays"
    /\ fnResult.returned
    /\ Len(fnArgs.segments) = 20
    /\ fnArgs.hookText = <<>>
    /\ Len(fnResult.overlays) = 10
    /\ fnResult.overlays[1].text = <<"a", " ", "a">>
    /\ fnResult.overlays[1].end = fnArgs.segments[2].end

\* The encode that produced the output of a call that returned.
WinningEncode(f) == f.execLog[Len(f.execLog)]

\* C26: the result of a call names the strategy of the encode that produced
\* the output, and its hadAnyCaptions is true exactly when that encode
\* carried at least one caption directive or overlay.
C26_ResultReportsCaptions ==
    \A p \in Callers :
        LET f == render[p]
        IN  f.pc = "returned" =>
                /\ WinningEncode(f).ok
                /\ f.result.usedStrategy = WinningEncode(f).strategy
                /\ f.result.hadAnyCaptions <=> (WinningEncode(f).captions # <<>>)

\* The places of a call in the order of the ladder; an encode is in flight
\* at the places A_exec, B_exec, C_exec and last_exec.
LadderRank(pc) ==
    CASE pc = "idle" -> 0 [] pc = "font" -> 1
      [] pc = "A" -> 2 [] pc = "A_exec" -> 3
      [] pc = "B" -> 4 [] pc = "B_exec" -> 5
      [] pc = "C" -> 6 [] pc = "C_exec" -> 7
      [] pc = "last" -> 8 [] pc = "last_exec" -> 9
      [] pc \in {"returned", "threw"} -> 10

EncodePlaces == {"A_exec", "B_exec", "C_exec", "last_exec"}

\* One step of the ladder: the call moves to a later place, an encode is invoked only
\* on entering the place of a strategy, and none after an exit code of 0.
LadderStep(p) ==
    LET f == render[p]
        g == render'[p]
    IN  /\ g # f => LadderRank(g.pc) > LadderRank(f.pc)
        /\ Len(Invoked(g)) > Len(Invoked(f)) =>
               /\ g.pc \in EncodePlaces
               /\ g.pc # f.pc
               /\ Len(Invoked(g)) = Len(Invoked(f)) + 1
               /\ \A k \in 1..Len(f.execLog) : ~f.execLog[k].ok
        /\ g.pc = "returned" /\ f.pc # "returned" =>
               /\ f.pc \in EncodePlaces
               /\ WinningEncode(g).ok
               /\ g.result # NoResult
        /\ g.pc = "threw" => g.result = NoResult
        /\ Len(Invoked(g)) <= 4
        /\ \A k \in 1..Len(g.execLog) :
               g.execLog[k].ok => (k = Len(g.execLog) /\ g.pc = "returned")

\* C27: the encodes of a call are invoked in the order A, B, C, plain encode
\* of the last resort, each at most once, none after an encode that exited
\* with 0, which ends the call with a result; at most four are invoked, and
\* every step of a call brings it closer to its end, a result or the fatal
\* error.
C27_LadderInOrder == [][\A p \in Callers : LadderStep(p)]_vars

\* A call that invoked all four encodes.
C27_Witness ==
    \E p \in Callers :
        /\ render[p].pc \in {"returned", "threw"}
        /\ Len(render[p].execLog) = 4
        /\ render[p].execLog[1].strategy = "A_drawtext"
        /\ render[p].execLog[2].strategy = "B_drawtext_safe"
        /\ render[p].execLog[3].strategy = "C_overlay_images"
        /\ render[p].execLog[4].strategy = "no_captions"

\* One step of a call that strategies A, B and C have all left without a
\* result.
LastResortStep(p) ==
    LET f == render[p]
        g == render'[p]
    IN  /\ (f.pc = "last" /\ g # f) =>
               /\ \A k \in 1..Len(f.execLog) : ~f.execLog[k].ok
               /\ IF f.captionsRequired
                  THEN /\ g.pc = "threw"
                       /\ Invoked(g) = Invoked(f)
                  ELSE /\ g.pc = "last_exec"
                       /\ g.execLog = f.execLog
                       /\ g.pending = <<[strategy |-> "no_captions", captions |-> <<>>]>>
        /\ (f.pc = "last_exec" /\ g # f) =>
               /\ Len(g.execLog) = Len(f.execLog) + 1
               /\ g.pending = <<>>
               /\ IF WinningEncode(g).ok
                  THEN /\ g.pc = "returned"
                       /\ g.result = [usedStrategy |-> "no_captions",
                                       hadAnyCaptions |-> FALSE]
                  ELSE g.pc = "threw"
        /\ (g.pc = "threw" /\ f.pc # "threw") => f.pc \in {"last", "last_exec"}

\* C28: when strategies A, B and C have all failed, a call with
\* captionsRequired = false runs exactly one plain encode, whose exit code 0
\* gives the result no_captions without captions and whose failure raises
\* the fatal error; a call with captionsRequired = true raises the fatal
\* error without another encode.
C28_LastResort == [][\A p \in Callers : LastResortStep(p)]_vars

\* A, B and C failed with captions that are not required, and the plain
\* encode saved the clip.
C28_Witness ==
    \E p \in Callers :
        LET f == render[p]
        IN  /\ f.pc = "returned"
            /\ ~f.captionsRequired
            /\ Len(f.execLog) = 4
            /\ \A k \in 1..3 : ~f.execLog[k].ok /\ f.execLog[k].captions # <<>>
            /\ f.execLog[4].ok
            /\ f.execLog[4].captions = <<>>
            /\ f.result = [usedStrategy |-> "no_captions", hadAnyCaptions |-> FALSE]

\* Strategy C is reached with nothing to overlay.
NothingToOverlay(f) == f.hookText = <<>> /\ f.segments = <<>>

\* One step of Strategy C with nothing to overlay.
ZeroOverlayStep(p) ==
    LET f == render[p]
        g == render'[p]
    IN  /\ (f.pc = "C" /\ NothingToOverlay(f) /\ g # f) =>
               /\ g.pc = "C_exec"
               /\ g.execLog = f.execLog
               /\ g.pending = <<[strategy |-> "no_captions", captions |-> <<>>]>>
        /\ (f.pc = "C_exec" /\ NothingToOverlay(f) /\ g # f) =>
               /\ Len(g.execLog) = Len(f.execLog) + 1
               /\ WinningEncode(g).captions = <<>>
               /\ WinningEncode(g).ok =>
                      /\ g.pc = "returned"
                      /\ g.result = [usedStrategy |-> "no_captions",
                                      hadAnyCaptions |-> FALSE]

\* C29: Strategy C reached without hook text and without segments runs a
\* plain encode, and on exit code 0 the call returns no_captions with
\* hadAnyCaptions = false.
C29_ZeroOverlaysPlainEncode == [][\A p \in Callers : ZeroOverlayStep(p)]_vars

\* The font was not staged, the hook text was a control character, and the
\* plain encode of Strategy C was the only encode of the call.
C29_Witness ==
    \E p \in Callers :
        LET f == render[p]
        IN  /\ f.pc = "returned"
            /\ ~f.fontLoaded
            /\ NothingToOverlay(f)
            /\ f.captions.hookText # <<>>
            /\ Len(f.execLog) = 1
            /\ f.result = [usedStrategy |-> "no_captions", hadAnyCaptions |-> FALSE]

\* The characters a text shows: upper and lower case are one, white space
\* and the backslash of an escape do not count.
Glyphs(text) ==
    {IF text[k] = "A" THEN "a" ELSE text[k] : k \in 1..Len(text)} \ {" ", "\\"}

HookGlyphs(f) == Glyphs(f.captions.hookText)

SegmentGlyphs(f) ==
    UNION {Glyphs(f.captions.segments[k].text) : k \in 1..Len(f.captions.segments)}

\* C30: every caption text an encode of the call is invoked with shows
\* something, and only characters of the input hook text or only characters
\* of the input segments; when normalization leaves no segment and no hook
\* text, no encode is invoked with a caption text or overlay, captions
\* required or not.
C30_NothingFabricated ==
    \A p \in Callers :
        LET f == render[p]
        IN  \A k \in 1..Len(Invoked(f)) :
                LET captions == Invoked(f)[k].captions
                IN  /\ \A c \in 1..Len(captions) :
                           /\ Glyphs(captions[c]) # {}
                           /\ \/ Glyphs(captions[c]) \subseteq HookGlyphs(f)
                              \/ Glyphs(captions[c]) \subseteq SegmentGlyphs(f)
                    /\ NothingToOverlay(f) => captions = <<>>

\* Captions are required, the input leaves nothing to draw, the font was
\* staged, and the call returned after one encode without captions.
C30_Witness ==
    \E p \in Callers :
        LET f == render[p]
        IN  /\ f.pc = "returned"
            /\ f.captionsRequired
            /\ f.fontLoaded
            /\ NothingToOverlay(f)
            /\ f.captions.segments # <<>>
            /\ Len(f.execLog) = 1
            /\ f.execLog[1].captions = <<>>

NormalizeReturned == fnArgs.fn = "normalizeCaptionSegments" /\ fnResult.returned

\* Times inside the clip, at least 0.08 s long, ascending and not overlapping.
WellTimed(segs, duration) ==
    /\ \A k \in 1..Len(segs) :
           /\ 0 <= segs[k].start
           /\ segs[k].start < segs[k].end
           /\ segs[k].end <= duration
           /\ segs[k].end - segs[k].start >= minLen
    /\ \A k \in 2..Len(segs) : segs[k].start >= segs[k - 1].end

HasNone(text, chars) == \A k \in 1..Len(text) : text[k] \notin chars

\* C31 as stated: every segment of the output has a text that is not empty
\* and holds no BOM and no control character, times inside the clip at
\* least 0.08 s apart, and the output is ascending without overlap.
C31_NormalizedSegments ==
    NormalizeReturned =>
        /\ WellTimed(fnResult.segments, fnArgs.duration)
        /\ \A k \in 1..Len(fnResult.segments) :
               /\ fnResult.segments[k].text # <<>>
               /\ HasNone(fnResult.segments[k].text, {"BOM", "^A", "LF"})

\* C31: the same, the text holding no BOM and none of the control characters
\* U+0000-0008, 000B, 000C, 000E-001F, 007F, and neither starting nor ending
\* with white space; a line feed inside the text is kept.
C31_NormalizedSegmentsStripped ==
    NormalizeReturned =>
        /\ WellTimed(fnResult.segments, fnArgs.duration)
        /\ \A k \in 1..Len(fnResult.segments) :
               LET text == fnResult.segments[k].text
               IN  /\ text # <<>>
                   /\ HasNone(text, {"BOM", "^A"})
                   /\ text[1] \notin WhiteSpace
                   /\ text[Len(text)] \notin WhiteSpace

\* Three segments given out of order, two of them overlapping and one past
\* the end of the clip: all three kept, one moved and one cut.
C31_Witness ==
    /\ NormalizeReturned
    /\ Len(fnArgs.segments) = 3
    /\ Len(fnResult.segments) = 3
    /\ fnArgs.segments[1].start > fnArgs.segments[2].start
    /\ fnResult.segments[2].start = fnResult.segments[1].end
    /\ \A k \in 1..3 : fnArgs.segments[k].start # fnResult.segments[2].start
    /\ fnResult.segments[3].end = fnArgs.duration
    /\ \E k \in 1..3 : fnArgs.segments[k].end > fnArgs.duration

-----------------------------------------------------------------------------
(* Claims about the clip timing planner *)

\* C3: every window returned by calculateClipTimings satisfies
\* 0 <= startTime < endTime <= sourceDuration, for every sourceDuration and
\* every CutConfig with duration > 0 and count >= 1, with or without highlights.
C3_WindowsInsideSource ==
    planner = "returned" =>
        \A k \in 1..Len(timings) :
            /\ 0 <= timings[k].startTime
            /\ timings[k].startTime < timings[k].endTime
            /\ timings[k].endTime <= videoDuration * Unit

\* C4: the returned list is sorted ascending by startTime and each window
\* starts at or after the end of the window before it (uniform and highlight mode).
C4_SortedDisjoint ==
    planner = "returned" =>
        \A k \in 2..Len(timings) :
            /\ timings[k - 1].startTime <= timings[k].startTime
            /\ timings[k].startTime >= timings[k - 1].endTime

\* Placing count disjoint windows of clipDuration inside [0, sourceDuration]
\* is possible exactly when count * clipDuration <= sourceDuration.
GeometricallyPossible == config.count * config.duration <= videoDuration

\* C5: calculateClipTimings returns exactly config.count windows; fewer only
\* when count disjoint windows do not fit into the source.
C5_ExactlyCountWindows ==
    planner = "returned" =>
        /\ Len(timings) <= config.count
        /\ GeometricallyPossible => Len(timings) = config.count

\* interval = (sourceDuration - clipDuration) / max(count - 1, 1), in 1/Unit s.
UniformInterval ==
    ((videoDuration - config.duration) * Unit) \div Max(config.count - 1, 1)

\* The window [i * interval, i * interval + clipDuration).
UniformWindow(i) ==
    [startTime |-> i * UniformInterval,
     endTime |-> i * UniformInterval + config.duration * Unit]

Span(t) == [startTime |-> t.startTime, endTime |-> t.endTime]

\* C21: without highlights calculateClipTimings returns count windows, the
\* windows [i * interval, i * interval + clipDuration) for i = 0..count-1 and
\* no other, in this order when the interval is not negative.
C21_UniformWindows ==
    (planner = "returned" /\ audioHighlights = <<>>) =>
        /\ Len(timings) = config.count
        /\ {Span(timings[k]) : k \in 1..Len(timings)}
             = {UniformWindow(i) : i \in 0..(config.count - 1)}
        /\ UniformInterval >= 0 =>
               \A i \in 0..(config.count - 1) : Span(timings[i + 1]) = UniformWindow(i)

\* 120 s, 3 clips of 30 s: [0,30), [45,75), [90,120).
C21_Witness ==
    /\ planner = "returned"
    /\ audioHighlights = <<>>
    /\ videoDuration = 120
    /\ config = [duration |-> 30, count |-> 3]
    /\ Len(timings) = 3
    /\ Span(timings[1]) = [startTime |-> 0, endTime |-> 30 * Unit]
    /\ Span(timings[2]) = [startTime |-> 45 * Unit, endTime |-> 75 * Unit]
    /\ Span(timings[3]) = [startTime |-> 90 * Unit, endTime |-> 120 * Unit]

\* The highlights the planner considers: the first count of the supplied
\* ones in descending intensity, ties in the order supplied.
Considered == sortedHighlights(audioHighlights, config.count)

\* Two windows share more than a point in time.
Overlap(a, b) == a.startTime < b.endTime /\ b.startTime < a.endTime

\* startTime = max(0, time - 3), endTime = startTime + clipDuration, moved
\* left as a whole when endTime would pass the source duration.
ShiftedProposal(h) ==
    LET startTime == Max(0, (h.time - HighlightLead) * Unit)
        endTime == startTime + config.duration * Unit
        shift == Max(0, endTime - videoDuration * Unit)
    IN  [startTime |-> startTime - shift, endTime |-> endTime - shift,
         peakIntensity |-> h.intensity]

\* The same, the start of a moved window kept at 0 or later.
ClampedProposal(h) ==
    LET w == ShiftedProposal(h)
    IN  [w EXCEPT !.startTime = Max(0, w.startTime)]

\* The proposals among the first k that overlap none accepted before them.
RECURSIVE AcceptedShifted(_)
AcceptedShifted(k) ==
    IF k = 0 THEN {}
    ELSE LET before == AcceptedShifted(k - 1)
             w == ShiftedProposal(Considered[k])
         IN  IF \E a \in before : Overlap(a, w) THEN before ELSE before \cup {w}

RECURSIVE AcceptedClamped(_)
AcceptedClamped(k) ==
    IF k = 0 THEN {}
    ELSE LET before == AcceptedClamped(k - 1)
             w == ClampedProposal(Considered[k])
         IN  IF \E a \in before : Overlap(a, w) THEN before ELSE before \cup {w}

\* The returned windows that come from a highlight.
HighlightWindows == {timings[k] : k \in {j \in 1..Len(timings) : timings[j].peakIntensity # NoPeak}}

HighlightModeReturned == planner = "returned" /\ audioHighlights # <<>>

\* C22 as stated: the highlight windows returned are the proposals, moved
\* left as a whole where needed, that overlap no proposal accepted before
\* them, and no two of them overlap.
C22_HighlightsByIntensity ==
    HighlightModeReturned =>
        /\ HighlightWindows = AcceptedShifted(Len(Considered))
        /\ \A a, b \in HighlightWindows : a # b => ~Overlap(a, b)

\* C22: the highlight windows returned are the proposals, moved left where
\* needed but not before 0, that overlap no proposal accepted before them,
\* and no two of them overlap.
C22_HighlightsByIntensityFromZero ==
    HighlightModeReturned =>
        /\ HighlightWindows = AcceptedClamped(Len(Considered))
        /\ \A a, b \in HighlightWindows : a # b => ~Overlap(a, b)

\* Two highlights, the later one the stronger, the window of the earlier one
\* overlapping it and left out, although the count asks for two.
C22_Witness ==
    /\ HighlightModeReturned
    /\ config.count >= 2
    /\ Len(audioHighlights) = 2
    /\ audioHighlights[2].intensity > audioHighlights[1].intensity
    /\ config.duration <= videoDuration
    /\ Overlap(ClampedProposal(audioHighlights[1]), ClampedProposal(audioHighlights[2]))
    /\ ClampedProposal(audioHighlights[1]) # ClampedProposal(audioHighlights[2])
    /\ ClampedProposal(audioHighlights[2]) \in HighlightWindows
    /\ ClampedProposal(audioHighlights[1]) \notin HighlightWindows

\* C23: with count = 1 calculateClipTimings returns one window and it starts
\* at 0, with highlights as well as without.
C23_SingleWindowAtZero ==
    (planner = "returned" /\ config.count = 1) =>
        /\ Len(timings) = 1
        /\ timings[1].startTime = 0

\* C38: a call of calculateClipTimings with a clip no longer than the source
\* and count >= 1 returns: the loop that fills the remaining slots is left.
C38_PlannerTerminates ==
    (planner # "parked" /\ config.duration <= videoDuration /\ config.count >= 1)
        => planner # "diverged"

-----------------------------------------------------------------------------
(* Claims about the peak detector *)

\* The bursts of a waveform: the stretches of windows of one constant energy
\* above zero with silence, or an end of the waveform, on both sides.
Bursts(e) ==
    {b \in [from : 1..Len(e), to : 1..Len(e)] :
        /\ b.from <= b.to
        /\ e[b.from] > 0
        /\ \A k \in b.from..b.to : e[k] = e[b.from]
        /\ b.from = 1 \/ e[b.from - 1] = 0
        /\ b.to = Len(e) \/ e[b.to + 1] = 0}

\* The waveform is made of bursts only, any two of them more than
\* minPeakDistance apart, and there are no more of them than numPeaks.
IsolatedBursts(e, minPeakDistance, numPeaks) ==
    /\ \A k \in 1..Len(e) : e[k] > 0 => \E b \in Bursts(e) : k \in b.from..b.to
    /\ \A b1, b2 \in Bursts(e) :
            b1.to < b2.from => WindowTime(b2.from) - WindowTime(b1.to) > minPeakDistance
    /\ Cardinality(Bursts(e)) <= numPeaks

\* The peak lies within one window of the burst.
PeakOf(peak, b) ==
    /\ peak.time >= WindowTime(b.from) - 2
    /\ peak.time <= WindowTime(b.to) + 2

\* C17: for a waveform of isolated bursts analyzeAudio returns one peak per
\* burst, within one window of it, and a louder burst has the peak of higher
\* intensity.
C17_OnePeakPerBurst ==
    (fnArgs.fn = "analyzeAudio" /\ fnResult.returned
        /\ IsolatedBursts(fnArgs.windowEnergies, fnArgs.minPeakDistance, fnArgs.numPeaks))
    => LET e == fnArgs.windowEnergies
           peaks == fnResult.peaks
       IN  /\ Len(peaks) = Cardinality(Bursts(e))
           /\ \A b \in Bursts(e) : \E k \in 1..Len(peaks) : PeakOf(peaks[k], b)
           /\ \A b1, b2 \in Bursts(e) : \A k1, k2 \in 1..Len(peaks) :
                   (PeakOf(peaks[k1], b1) /\ PeakOf(peaks[k2], b2) /\ e[b1.from] < e[b2.from])
                   => peaks[k1].intensity < peaks[k2].intensity

AnalyzeReturned == fnArgs.fn = "analyzeAudio" /\ fnResult.returned

\* C34 as stated: any two returned peaks are more than minPeakDistance apart.
C34_PeaksFartherThanDistance ==
    AnalyzeReturned =>
        \A j, k \in 1..Len(fnResult.peaks) :
            j # k => Abs(fnResult.peaks[j].time - fnResult.peaks[k].time)
                        > fnArgs.minPeakDistance

\* C34: any two returned peaks are at least minPeakDistance apart.
C34_PeaksAtLeastDistance ==
    AnalyzeReturned =>
        \A j, k \in 1..Len(fnResult.peaks) :
            j # k => Abs(fnResult.peaks[j].time - fnResult.peaks[k].time)
                        >= fnArgs.minPeakDistance

\* The candidates of the call: the strict local maxima above the threshold.
Candidates == allPeaks(normalizedEnergies(fnArgs.windowEnergies), 2)

Returned(peak) == \E k \in 1..Len(fnResult.peaks) : fnResult.peaks[k] = peak

\* Two peaks returned and a local maximum between them left out for its
\* distance to one of them.
C34_Witness ==
    /\ AnalyzeReturned
    /\ Len(fnResult.peaks) = 2
    /\ \E c \in 1..Len(Candidates) :
           /\ ~Returned(Candidates[c])
           /\ fnResult.peaks[1].time < Candidates[c].time
           /\ Candidates[c].time < fnResult.peaks[2].time

-----------------------------------------------------------------------------
(* Claims about the speech segmenter *)

\* The call is one of segmentTranscription that has returned, and the gap
\* between word 3 and word 4 is longer than 0.5 s.
PauseAfterWord3 ==
    /\ fnArgs.fn = "segmentTranscription"
    /\ fnResult.returned
    /\ Len(fnArgs.words) >= 4
    /\ fnArgs.words[4].start - fnArgs.words[3].end > pauseGap

\* Some segment ends with word 3 and the one after it starts with word 4.
BreakAfterWord3 ==
    \E k \in 1..(Len(fnResult.segments) - 1) :
        /\ fnResult.segments[k].end = fnArgs.words[3].end
        /\ fnResult.segments[k + 1].start = fnArgs.words[4].start

NotBlank(word) == trim(word.word) # <<>>

\* C18 as stated: with a pause after word 3 a segment ends at word 3 and the
\* next begins at word 4, whatever the limits and the words.
C18_BreakAtPause == PauseAfterWord3 => BreakAfterWord3

\* C18: with a pause after word 3, and words 3 and 4 not blank, a segment
\* ends at word 3 and the next begins at word 4, whatever the limits.
C18_BreakAtPauseOfSpokenWords ==
    (PauseAfterWord3 /\ NotBlank(fnArgs.words[3]) /\ NotBlank(fnArgs.words[4]))
    => BreakAfterWord3

\* The limits are the largest of the menu, so that only the pause closes the
\* segment of words 1 to 3.
C18_Witness ==
    /\ PauseAfterWord3
    /\ fnArgs.maxWordsPerSegment = DefaultMaxWordsPerSegment
    /\ fnArgs.maxSegmentDuration = DefaultMaxSegmentDuration
    /\ \A k \in 1..Len(fnArgs.words) : NotBlank(fnArgs.words[k]) /\ ~hasSentenceEnd(fnArgs.words[k])
    /\ fnArgs.words[3].end - fnArgs.words[1].start < DefaultMaxSegmentDuration
    /\ fnResult.segments[1].end = fnArgs.words[3].end
    /\ fnResult.segments[2].start = fnArgs.words[4].start

\* The call is one of segmentTranscription on six words without gaps, with
\* the default limits, that has returned.
SixWordsNoGaps ==
    /\ fnArgs.fn = "segmentTranscription"
    /\ fnResult.returned
    /\ Len(fnArgs.words) = 6
    /\ \A k \in 1..5 : fnArgs.words[k + 1].start = fnArgs.words[k].end
    /\ fnArgs.maxWordsPerSegment = DefaultMaxWordsPerSegment
    /\ fnArgs.maxSegmentDuration = DefaultMaxSegmentDuration

\* One segment from the start of word 1 to the end of word 6.
OneSegmentOfSix ==
    /\ Len(fnResult.segments) = 1
    /\ fnResult.segments[1].start = fnArgs.words[1].start
    /\ fnResult.segments[1].end = fnArgs.words[6].end

\* C19 as stated: six words without gaps give one segment of all six.
C19_SixWordsOneSegment == SixWordsNoGaps => OneSegmentOfSix

\* C19: six words without gaps give one segment of all six when none of the
\* first five ends a sentence and the first five end less than 3.0 s after
\* the start of the first.
C19_SixShortWordsOneSegment ==
    (/\ SixWordsNoGaps
     /\ \A k \in 1..5 : ~hasSentenceEnd(fnArgs.words[k])
     /\ fnArgs.words[5].end - fnArgs.words[1].start < DefaultMaxSegmentDuration)
    => /\ OneSegmentOfSix
       /\ fnResult.segments[1].text = trim(JoinWords(fnArgs.words))

C19_Witness ==
    /\ SixWordsNoGaps
    /\ \A k \in 1..6 : fnArgs.words[k].word = <<"a">>
    /\ fnArgs.words[6].end - fnArgs.words[1].start = DefaultMaxSegmentDuration
    /\ OneSegmentOfSix

SegmenterReturned == fnArgs.fn = "segmentTranscription" /\ fnResult.returned

\* The words of a segment's text: what stands between its blanks.
RECURSIVE Tokens(_, _)
Tokens(text, token) ==
    LET closed == IF token = <<>> THEN <<>> ELSE <<token>>
    IN  IF text = <<>> THEN closed
        ELSE IF Head(text) = " " THEN closed \o Tokens(Tail(text), <<>>)
        ELSE Tokens(Tail(text), Append(token, Head(text)))

\* Number of words in the first k segments.
RECURSIVE WordsUpTo(_, _)
WordsUpTo(segs, k) ==
    IF k = 0 THEN 0 ELSE WordsUpTo(segs, k - 1) + Len(Tokens(segs[k].text, <<>>))

\* C36: for a stream of words none of which is blank, the segments hold the
\* words of the stream in order, none lost or repeated (a word taken without
\* the white space around it), at most maxWordsPerSegment in each, and a
\* segment starts with its first word and ends with its last.
C36_SegmentsPartitionWords ==
    (SegmenterReturned /\ \A i \in 1..Len(fnArgs.words) : NotBlank(fnArgs.words[i]))
    => LET segs == fnResult.segments
           words == fnArgs.words
       IN  /\ WordsUpTo(segs, Len(segs)) = Len(words)
           /\ \A k \in 1..Len(segs) :
                  LET tokens == Tokens(segs[k].text, <<>>)
                      first == WordsUpTo(segs, k - 1) + 1
                      last == WordsUpTo(segs, k)
                  IN  /\ Len(tokens) >= 1
                      /\ Len(tokens) <= fnArgs.maxWordsPerSegment
                      /\ last <= Len(words)
                      /\ \A j \in 1..Len(tokens) :
                             first + j - 1 <= Len(words)
                             /\ tokens[j] = trim(words[first + j - 1].word)
                      /\ segs[k].start = words[first].start
                      /\ segs[k].end = words[last].end

\* Three different words, out of order in time, in two segments.
C36_Witness ==
    /\ SegmenterReturned
    /\ Len(fnArgs.words) = 3
    /\ fnArgs.words[1].word = <<" ", "c">>
    /\ fnArgs.words[2].word = <<"a">>
    /\ fnArgs.words[3].word = <<"b", ".">>
    /\ fnArgs.words[2].start < fnArgs.words[1].start
    /\ fnArgs.maxWordsPerSegment = 3
    /\ Len(fnResult.segments) = 2
    /\ fnResult.segments[1].text = <<"c", " ", "a">>
    /\ fnResult.segments[2].text = <<"b", ".">>

\* C37: every segment has end > start and the starts of the segments do not
\* decrease, whatever the times of the words.
C37_SegmentsWellTimed ==
    SegmenterReturned =>
        LET segs == fnResult.segments
        IN  /\ \A k \in 1..Len(segs) : segs[k].end > segs[k].start
            /\ \A k \in 2..Len(segs) : segs[k - 1].start <= segs[k].start

-----------------------------------------------------------------------------
(* Claims about the crop *)

\* C20: for a source of 1920x1080 the crop rectangle has exactly the ratio
\* 9:16 and an even width and height.
C20_CropIsNineBySixteen ==
    (/\ fnArgs.fn = "buildFilterChain"
     /\ fnResult.returned
     /\ fnArgs.inputWidth = 1920
     /\ fnArgs.inputHeight = 1080)
    => /\ fnResult.crop.cropW * targetRatioDen = fnResult.crop.cropH * targetRatioNum
       /\ fnResult.crop.cropW % 2 = 0
       /\ fnResult.crop.cropH % 2 = 0

-----------------------------------------------------------------------------
(* Claims about the orchestrator, caption revision (part_003) *)

\* C6, as stated: once abort() has been called during a processVideo run, the
\* run ends in stage `aborted`: the step that ends an aborted run without an
\* error leaves the stage at `aborted`, not at `complete`.
C6_AbortedRunEndsAborted ==
    [][\A r \in Callers :
          (run[r].abortCalled /\ run[r].pc # "resolved" /\ run'[r].pc = "resolved")
              => progress'.stage = "aborted"]_vars

\* C8, as stated: a clip whose render failed with the engine-crash signature
\* has the engine reloaded once and is rendered again, so a run that ends
\* after a reload has rendered the clip twice.
C8_ReloadedClipRenderedAgain ==
    \A r \in Callers :
        (run[r].pc = "rejected" /\ run[r].reloads = 1) => run[r].attempt = 2

\* C8, amended: the first failure of a clip's render with the signature starts
\* exactly one forced reload (a new engine instance); when the reload
\* succeeds the same clip is rendered again, when it fails the run ends in
\* stage `error` and rejects without a second render; a failure of the
\* second render starts no reload, ends the run in stage `error` and rejects.
C8_RetryOnceThenFatal ==
    [][\A r \in Callers :
        LET a == run[r]
            b == run'[r]
            rendering == {"encode", "fallback"}
        IN  /\ b.reloads <= 1
            /\ b.attempt <= 2
            /\ (a.pc \in rendering /\ b.pc = "reload") =>
                    /\ a.attempt = 1
                    /\ shouldRetryEngine(b.error)
                    /\ b.reloads = 1
                    /\ ffmpegRef' # ffmpegRef
                    /\ engineState[ffmpegRef'] = "unused"
                    /\ engineState'[ffmpegRef'] = "loading"
            /\ (a.pc \in rendering /\ a.attempt = 1 /\ b.pc = "rejected") =>
                    ~shouldRetryEngine(b.error)
            /\ (a.pc = "reload" /\ b.pc # "reload") =>
                    \/ /\ engineState'[a.waitsFor] = "ready"
                       /\ b.pc = "encode"
                       /\ b.attempt = 2
                       /\ b.i = a.i
                       /\ render'[r].pc = "font"
                       /\ render'[r].outputFile = OutputName(a.i)
                    \/ /\ engineState'[a.waitsFor] = "failed"
                       /\ b.pc = "rejected"
                       /\ b.attempt = 1
                       /\ progress'.stage = "error"
            /\ (a.pc \in rendering /\ a.attempt = 2 /\ b.pc \notin rendering \cup {"read"}) =>
                    /\ b.pc = "rejected"
                    /\ progress'.stage = "error"
                    /\ engineState' = engineState
                    /\ ffmpegRef' = ffmpegRef]_vars

C8_Witness ==
    \E r \in Callers :
        /\ run[r].pc = "rejected"
        /\ run[r].reloads = 1
        /\ run[r].attempt = 2
        /\ progress.stage = "error"

\* C10, as stated: at most one run is active and at most one engine
\* invocation is in flight, whatever the interleaving of the interface calls.
C10_OneRunOneExec ==
    /\ Cardinality({r \in Callers : Active(r)}) <= 1
    /\ Cardinality(execInFlight) <= 1

\* The instances a step creates, and whether the step is the forced reload of
\* the retry.
Created == {e \in Engines : engineState[e] = "unused" /\ engineState'[e] # "unused"}
ForcedReload == \E r \in Callers : run[r].pc # "reload" /\ run'[r].pc = "reload"

\* C11: load() without force creates an instance only when no load is in
\* flight and none has completed, and then a single one, however many times
\* it is called in a row.
C11_LoadIsIdempotent ==
    [][(Created # {} /\ ~ForcedReload)
        => /\ Cardinality(Created) = 1
           /\ ~loaded
           /\ \A e \in Engines : engineState[e] # "loading"]_vars

\* What a run writes into the working storage of the engine: the source, the
\* clip outputs, the audio extract, the overlay images.
TransientFiles ==
    {"input.mp4", "asr_preview.wav", "ov_hook.png"}
        \cup {OutputName(i) : i \in 0..MaxCount}
        \cup {OvFile(i) : i \in 0..MAX_OVERLAYS}

\* C12: once a run has ended in stage complete, error or aborted, the working
\* storage of the engine holds none of the files the run wrote.
C12_NoTransientLeft ==
    \A r \in Callers :
        (/\ revision = "captions"
         /\ run[r].pc \in {"resolved", "rejected"}
         /\ progress.stage \in {"complete", "error", "aborted"}
         /\ ffmpegRef # NoEngine)
        => fs[ffmpegRef] \cap TransientFiles = {}

\* C13: reset() called when no run is pending leaves no object URL of a clip
\* unrevoked, the clip list empty and the progress idle.
C13_ResetReleasesAll ==
    [][(Reset /\ \A r \in Callers : ~Active(r))
        => (urls' = {} /\ clips' = <<>> /\ progress' = Progress(0, 0, "idle"))]_vars

\* The place of a stage in the order of the progress stages; error and
\* aborted can follow any stage.
StageRank(stage) ==
    CASE stage = "idle" -> 0
      [] stage = "reading-file" -> 1
      [] stage = "analyzing" -> 2
      [] stage = "generating-captions" -> 3
      [] stage = "applying-filters" -> 4
      [] stage = "encoding" -> 5
      [] stage = "finalizing" -> 6
      [] stage = "complete" -> 7
      [] OTHER -> 8

\* C14: while a run is pending, no step other than reset() moves the stage to
\* an earlier stage of the order.
C14_StageMovesForward ==
    [][((\E r \in Callers : Active(r)) /\ ~Reset)
        => StageRank(progress.stage) <= StageRank(progress'.stage)]_vars

\* The transcription of the clip the run is at brought no captions, and the
\* caption-free encode of the clip succeeds whenever it is attempted.
AsrGaveNothing(r) ==
    /\ run[r].asrEnabled
    /\ run[r].attempt >= 1
    /\ run[r].captionResult = <<>>
    /\ run[r].plainViable

\* C15: a clip whose transcription failed or came back empty does not fail
\* the run as long as its caption-free encode succeeds: the ladder does not
\* throw and the run is not rejected at that clip, with captions enabled too.
C15_AsrFailureNotFatal ==
    \A r \in Callers :
        AsrGaveNothing(r)
        => /\ run[r].pc # "rejected"
           /\ run[r].pc = "encode" => render[r].pc # "threw"

\* With captions enabled and a failed transcription the clip was rendered and
\* appended.
C15_Witness ==
    \E r \in Callers :
        /\ AsrGaveNothing(r)
        /\ run[r].captionsRequired
        /\ run[r].pc = "delete"
        /\ Len(clips) >= 1
        /\ clips[Len(clips)] = Clip(r, run[r].i, run[r].timings[run[r].i + 1])

\* The render of the clip's first runEncode has thrown after one of its
\* encodes was rejected by an aborting engine.
CrashedRenderThrew(r) ==
    /\ run[r].pc = "encode"
    /\ run[r].attempt = 1
    /\ render[r].pc = "threw"
    /\ render[r].engineAborted

\* C32: when the first render of a clip throws after an encode of it failed
\* with the engine aborting, the orchestrator starts the forced reload (or,
\* captions not being required, first runs its own plain encode), for both
\* values of captionsRequired.
C32_CrashReachesRetry ==
    [][\A r \in Callers :
          (CrashedRenderThrew(r) /\ run'[r].pc # "encode")
              => run'[r].pc \in {"reload", "fallback"}]_vars

\* The instance the render of a retried clip runs on.
RetryEngine(r) == render[r].ffmpeg

\* C33: while a clip is rendered again after the forced reload, input.mp4 is
\* in the working storage of the instance the render runs on.
C33_RetryHasInput ==
    \A r \in Callers :
        (run[r].pc = "encode" /\ run[r].attempt = 2 /\ render[r].pc # "idle")
            => "input.mp4" \in fs[RetryEngine(r)]

-----------------------------------------------------------------------------
(* Claims about the orchestrator, viral revision (useFFmpegWorker.ts) *)

\* C7: when abort() is called while an encode is in flight, the run, once it
\* and abort() have both finished, is not left at stage error.
C7_CancellationNeverError ==
    \A r \in Callers :
        (revision = "viral" /\ run[r].abortCalled /\ run[r].pc = "rejected"
            /\ aborting = "idle")
        => progress.stage # "error"

\* The guard of line 106: load() returns without doing anything.
LoadReturnsAtOnce == ffmpegRef # NoEngine \/ loading

\* The last load() has failed and none is pending.
LoadHasFailed ==
    /\ revision = "viral"
    /\ ~loading
    /\ ffmpegRef # NoEngine
    /\ engineState[ffmpegRef] = "failed"

\* C39: once a load() has failed a further load() passes the guard and loads
\* again, and processVideo does not go on with an instance whose load failed.
C39_FailedLoadRetried ==
    /\ LoadHasFailed => ~LoadReturnsAtOnce
    /\ \A r \in Callers :
           (revision = "viral" /\ run[r].pc = "write")
               => engineState[run[r].ffmpeg] # "failed"

-----------------------------------------------------------------------------
(* Claims about both revisions of the orchestrator *)

\* C9: a step that leaves the stage at error or aborted keeps every clip that
\* was published before it, unchanged and in place.
C9_PublishedClipsKept ==
    [][progress'.stage \in {"error", "aborted"} => IsPrefix(clips, clips')]_vars

\* A run has published a clip and a later clip of it has failed.
C9_Witness ==
    \E r \in Callers :
        /\ run[r].pc = "rejected"
        /\ run[r].i >= 1
        /\ progress.stage = "error"
        /\ Len(clips) = run[r].i
        /\ clips[1].index = 0
        /\ clips[1].startTime = run[r].timings[1].startTime

=============================================================================
